---- MODULE Spec2Model ----
(***************************************************************************)
(* A model of codereview: the analysis orchestrator (analyzeDiff,          *)
(* analyzeAgentic), the finding partitioner (partitionFindings,            *)
(* isLineInDiff) and the detailed diff parser (parseDetailedDiff).         *)
(*                                                                         *)
(* Text is modelled as a sequence of one-character strings, so that        *)
(* startsWith and the regular expressions are computed on the characters.  *)
(***************************************************************************)
EXTENDS Integers, Sequences, FiniteSets, TLC

VARIABLES
  mode,        \* which program runs: "bounded", "agentic", "partition", "member", "parse"
  pc,          \* position of the running call
  parentEnv,   \* process.env of the tool: variable name -> value
  spawns,      \* every engine subprocess started so far: [cmd, args, env]
  engineLog,   \* bounded mode: what execFile settled with, one entry per finished attempt
  attempt,     \* analyzeDiff: the loop counter
  lastError,   \* analyzeDiff: lastError
  outcome,     \* the promise returned by the call
  child,       \* analyzeAgentic: the spawned child ("none", "running", "closed")
  stdout,      \* analyzeAgentic: accumulated stdout, one entry per line
  stderrMax,   \* analyzeAgentic: stderr.includes('max turns')
  timer,       \* analyzeAgentic: the setTimeout handle ("unarmed", "armed", "fired", "cleared")
  settled,     \* analyzeAgentic: settled
  errored,     \* analyzeAgentic: the child has emitted 'error'
  closeEvt,    \* analyzeAgentic: the (code, signal) of the 'close' event, once emitted
  findings,    \* partitionFindings: the findings argument
  diffHunks,   \* partitionFindings: the diffHunks argument (a Map as a function)
  partResult,  \* partitionFindings: the returned {inline, offDiff}
  hunksArg,    \* isLineInDiff: the hunks argument
  lineArg,     \* isLineInDiff: the line argument
  memberRes,   \* isLineInDiff: [done, value]: the returned boolean once called
  rawLines,    \* parseDetailedDiff: the lines of rawDiff consumed so far
  files,       \* parseDetailedDiff: files
  current,     \* parseDetailedDiff: index of current in files (0 is null)
  oldLineNum,  \* parseDetailedDiff: oldLineNum
  newLineNum,  \* parseDetailedDiff: newLineNum
  hunkLines,   \* parseDiffHunks: the lines of diff consumed so far
  result,      \* parseDiffHunks: result (a Map as its entries in insertion order)
  currentFile, \* parseDiffHunks: currentFile (<<>> is null)
  actual,      \* matchFindings: the actual argument
  expected,    \* matchFindings: the expected argument
  matchResult, \* matchFindings: [done, matched, unmatched_actual]: the returned MatchResult
  metricsArg,  \* computeMetrics: the result argument
  metrics,     \* computeMetrics: [done, tp, fp, fn, precision, recall, hallucinationRate]
  tool,        \* cli: the tool's process ("running", "exited")
  activeClonePath, \* cli: activeClonePath ("null", "clonePath")
  sigintScope, \* whom the interrupt was delivered to ("none", "process", "group")
  runPc,       \* cli: where the action handler stands
  runOpts,     \* cli: options [post, html]
  cloneDir,    \* the clone directory on disk ("absent", "present")
  cloneSucceeded, \* cli: cloneSucceeded
  runFindings, \* cli: findings (<<>> until an analysis has returned)
  printed,     \* cli: [findings, posted, failure]: what the run has printed and posted
  answer,      \* promptCleanup: the line the user typed (<<"-">> before the prompt)
  exitCode,    \* the exit code of the tool's process (Null while it runs)
  postArgs,    \* postReview: [body, comments]
  postPc,      \* postReview: "start", "first", "second", "done"
  postCalls,   \* postReview: the createReview calls made, each [body, comments]
  postOutcome, \* postReview: the promise returned
  reportArg,   \* generateHtmlReport: [diff, findings]: prData.diff as its lines, findings
  htmlReport   \* generateHtmlReport: [done, inline, diffSections, offDiffSection]

orchVars == <<pc, parentEnv, spawns, engineLog, attempt, lastError, outcome,
              child, stdout, stderrMax, timer, settled, errored, closeEvt>>
partVars == <<findings, diffHunks, partResult>>
memberVars == <<hunksArg, lineArg, memberRes>>
parseVars == <<rawLines, files, current, oldLineNum, newLineNum>>
hunkVars == <<hunkLines, result, currentFile>>
evalVars == <<actual, expected, matchResult>>
metricVars == <<metricsArg, metrics>>
cliVars == <<tool, activeClonePath, sigintScope, runPc, runOpts, cloneDir, cloneSucceeded,
             runFindings, printed, answer, exitCode>>
postVars == <<postArgs, postPc, postCalls, postOutcome>>
reportVars == <<reportArg, htmlReport>>
restVars == <<postVars, reportVars>>
extVars == <<hunkVars, evalVars, metricVars, cliVars, restVars>>
vars == <<mode, orchVars, partVars, memberVars, parseVars, extVars>>

(***************************************************************************)
(* Text helpers                                                            *)
(***************************************************************************)
StartsWith(s, p) == Len(p) <= Len(s) /\ SubSeq(s, 1, Len(p)) = p

(***************************************************************************)
(* Environment filtering (analyzer.ts)                                     *)
(***************************************************************************)
DANGEROUS_PREFIXES ==
  { <<"A","W","S","_">>,
    <<"A","Z","U","R","E","_">>,
    <<"G","C","P","_">>,
    <<"G","O","O","G","L","E","_">>,
    <<"D","A","T","A","B","A","S","E","_">>,
    <<"R","E","D","I","S","_">>,
    <<"M","O","N","G","O","_">>,
    <<"S","E","C","R","E","T","_">>,
    <<"P","A","S","S","W","O","R","D","_">>,
    <<"C","I","_">>,
    <<"J","E","N","K","I","N","S","_">>,
    <<"T","R","A","V","I","S","_">>,
    <<"C","I","R","C","L","E","_">>,
    <<"T","O","K","E","N","_">>,
    <<"K","E","Y","_">> }

DANGEROUS_EXACT == { <<"D","A","T","A","B","A","S","E","_","U","R","L">>,
                     <<"R","E","D","I","S","_","U","R","L">> }

KEEP_LIST == { <<"A","N","T","H","R","O","P","I","C","_","A","P","I","_","K","E","Y">>,
               <<"G","H","_","T","O","K","E","N">>,
               <<"G","I","T","H","U","B","_","T","O","K","E","N">> }

\* Names a parent environment may hold: a deny-listed prefix, a deny-listed exact
\* name, an allow-listed name, a harmless name, and a name that merely contains
\* a prefix.
EnvNames == { <<"A","W","S","_","K">>,
              <<"R","E","D","I","S","_","U","R","L">>,
              <<"G","H","_","T","O","K","E","N">>,
              <<"P","A","T","H">>,
              <<"M","Y","_","C","I","_","X">>,
              <<"C","I">> }

\* The value the parent holds for a name (each name has its own value).
EnvValue(k) == <<"v">> \o k

EnvOf(S) == [k \in S |-> EnvValue(k)]

AllEnvs == {EnvOf(S) : S \in SUBSET EnvNames}

BaseEnvs == {EnvOf(EnvNames), EnvOf({})}

\* The loop body of filterEnv: whether the entry for key is copied.
EnvKept(key) ==
  IF key \in KEEP_LIST THEN TRUE
  ELSE IF key \in DANGEROUS_EXACT THEN FALSE
  ELSE IF \E prefix \in DANGEROUS_PREFIXES : StartsWith(key, prefix) THEN FALSE
  ELSE TRUE

filterEnv(env) == [key \in {k \in DOMAIN env : EnvKept(k)} |-> env[key]]

(***************************************************************************)
(* The engine's answers                                                    *)
(***************************************************************************)
\* Mutant of MAX_ATTEMPTS: one attempt too many.
MaxAttemptsThree == 2 + 1

MAX_ATTEMPTS == 2
MAX_ANALYSIS_TURNS == 10
MAX_AGENTIC_TURNS == 75

NoFindings == <<>>
SomeFindings == <<[file |-> "a", line |-> 1]>>

\* wrapper.result, by how the double parse treats it:
\*   json      JSON.parse(result) succeeds and the schema accepts it
\*   embedded  JSON.parse(result) throws, the {..."findings"...} span parses
\*   prose     JSON.parse(result) throws and no span matches
\*   badschema JSON.parse(result) succeeds and the schema rejects it
ResultTexts ==
  { [form |-> "json", findings |-> NoFindings],
    [form |-> "json", findings |-> SomeFindings],
    [form |-> "embedded", findings |-> SomeFindings],
    [form |-> "prose", findings |-> NoFindings],
    [form |-> "badschema", findings |-> NoFindings] }

Subtypes == {"success", "error_max_turns"}

\* ClaudeResponse: the envelope. An envelope that reports failure carries either
\* a well-formed findings answer or prose.
Envelopes ==
  { e \in [is_error : BOOLEAN, subtype : Subtypes, result : ResultTexts] :
      (e.is_error \/ e.subtype # "success") =>
         e.result \in { [form |-> "json", findings |-> SomeFindings],
                        [form |-> "json", findings |-> NoFindings],
                        [form |-> "prose", findings |-> NoFindings] } }

NoEnvelope == [is_error |-> FALSE, subtype |-> "none",
               result |-> [form |-> "prose", findings |-> NoFindings]]

\* Why an execFile call of bounded mode ended.
\*   exit0      exit code 0: the promise resolves with stdout
\*   exit       non-zero exit or a signal from outside
\*   timeout    the timeout option expired and execFile killed the child
\*   maxbuffer  stdout grew over maxBuffer
\*   spawn      the process could not be started
ExecCauses == {"exit0", "exit", "timeout", "maxbuffer", "spawn"}

\* What execFile settles with. json: stdout is JSON text (JSON.parse succeeds).
ExecResults ==
  { r \in [cause : ExecCauses, json : BOOLEAN, wrapper : Envelopes \cup {NoEnvelope}] :
      /\ (r.cause = "exit0" /\ r.json) <=> r.wrapper # NoEnvelope
      /\ r.cause # "exit0" => ~r.json }

\* The killed property of the error execFile rejects with: true after its own
\* timeout kill, false on a plain failure, not set on the errors that are not
\* built by its exit handler.
KilledOf(cause) ==
  CASE cause = "timeout" -> "true"
    [] cause = "exit" -> "false"
    [] OTHER -> "absent"

Pending == [state |-> "pending", findings |-> <<>>, error |-> [msg |-> "none", killed |-> "absent"]]
Resolved(fs) == [state |-> "resolved", findings |-> fs, error |-> [msg |-> "none", killed |-> "absent"]]
Rejected(e) == [state |-> "rejected", findings |-> <<>>, error |-> e]

NoError == [msg |-> "none", killed |-> "absent"]

Err(m) == [msg |-> m, killed |-> "absent"]

\* Mutant of AttemptBody: the envelope's is_error flag is not looked at.
AttemptBodyNoIsError(r) ==
  IF r.cause # "exit0"
    THEN [ok |-> FALSE, findings |-> NoFindings,
          error |-> [msg |-> "Command failed", killed |-> KilledOf(r.cause)]]
  ELSE IF ~r.json
    THEN [ok |-> FALSE, findings |-> NoFindings, error |-> Err("SyntaxError")]
  ELSE IF r.wrapper.subtype # "success"
    THEN [ok |-> FALSE, findings |-> NoFindings, error |-> Err("Claude CLI error")]
  ELSE IF r.wrapper.result.form = "prose"
    THEN [ok |-> FALSE, findings |-> NoFindings,
          error |-> Err("Could not find JSON in Claude response")]
  ELSE IF r.wrapper.result.form = "badschema"
    THEN [ok |-> FALSE, findings |-> NoFindings,
          error |-> Err("Response validation failed")]
  ELSE [ok |-> TRUE, findings |-> r.wrapper.result.findings, error |-> NoError]

\* The try block of analyzeDiff from the await on: the value returned, or the
\* error thrown.
AttemptBody(r) ==
  IF r.cause # "exit0"
    THEN [ok |-> FALSE, findings |-> NoFindings,
          error |-> [msg |-> "Command failed", killed |-> KilledOf(r.cause)]]
  ELSE IF ~r.json
    THEN [ok |-> FALSE, findings |-> NoFindings, error |-> Err("SyntaxError")]
  ELSE IF r.wrapper.is_error \/ r.wrapper.subtype # "success"
    THEN [ok |-> FALSE, findings |-> NoFindings, error |-> Err("Claude CLI error")]
  ELSE IF r.wrapper.result.form = "prose"
    THEN [ok |-> FALSE, findings |-> NoFindings,
          error |-> Err("Could not find JSON in Claude response")]
  ELSE IF r.wrapper.result.form = "badschema"
    THEN [ok |-> FALSE, findings |-> NoFindings,
          error |-> Err("Response validation failed")]
  ELSE [ok |-> TRUE, findings |-> r.wrapper.result.findings, error |-> NoError]

\* Mutant of IsKilled: the timeout is not recognised.
IsKilledNever(error) == FALSE

\* The timeout test of the catch block.
IsKilled(error) == error.killed # "absent" /\ error.killed = "true"

TimeoutError == Err("Analysis timed out after 5 minutes")


BoundedArgs == [prompt |-> "buildPrompt", format |-> "json",
                maxTurns |-> MAX_ANALYSIS_TURNS]
AgenticArgs == [prompt |-> "buildAgenticPrompt", format |-> "stream-json",
                maxTurns |-> MAX_AGENTIC_TURNS]

(***************************************************************************)
(* Bounded mode: analyzeDiff                                               *)
(***************************************************************************)
\* One pass of the for loop up to the await: execFile("claude", args, {timeout,
\* maxBuffer, encoding}). No env option is given, so the child gets process.env.
AnalyzeDiffSpawn ==
  /\ mode = "bounded"
  /\ pc = "start"
  /\ attempt < MAX_ATTEMPTS
  /\ spawns' = Append(spawns, [cmd |-> "claude", args |-> BoundedArgs, env |-> parentEnv])
  /\ pc' = "await"
  /\ UNCHANGED <<mode, parentEnv, engineLog, attempt, lastError, outcome, child, stdout,
                 stderrMax, timer, settled, errored, closeEvt>>
  /\ UNCHANGED <<partVars, memberVars, parseVars, extVars>>

\* The await settles with r: the rest of the try block, then the catch block.
AnalyzeDiffSettle ==
  /\ mode = "bounded"
  /\ pc = "await"
  /\ \E r \in ExecResults :
       LET body == AttemptBody(r) IN
       /\ engineLog' = Append(engineLog, r)
       /\ IF body.ok
            THEN /\ outcome' = Resolved(body.findings)
                 /\ pc' = "done"
                 /\ UNCHANGED <<attempt, lastError>>
          ELSE IF IsKilled(body.error)
            THEN /\ outcome' = Rejected(TimeoutError)
                 /\ pc' = "done"
                 /\ UNCHANGED <<attempt, lastError>>
          ELSE /\ lastError' = body.error
               /\ attempt' = attempt + 1
               /\ IF attempt < MAX_ATTEMPTS - 1
                    THEN pc' = "start" /\ UNCHANGED outcome
                    ELSE pc' = "done" /\ outcome' = Rejected(body.error)
  /\ UNCHANGED <<mode, parentEnv, spawns, child, stdout, stderrMax, timer, settled,
                 errored, closeEvt>>
  /\ UNCHANGED <<partVars, memberVars, parseVars, extVars>>

(***************************************************************************)
(* Streaming mode: analyzeAgentic                                          *)
(***************************************************************************)
MaxStdoutLines == 2

\* One line of the stream-json output: text that is not JSON, an event of
\* another type, or a result event.
StreamLines ==
  { [t |-> "garbage", wrapper |-> NoEnvelope], [t |-> "assistant", wrapper |-> NoEnvelope] }
  \cup { [t |-> "result", wrapper |-> e] : e \in Envelopes }

NoLine == [t |-> "none", wrapper |-> NoEnvelope]

\* The last line whose JSON has type "result", scanning from the end; NoLine
\* when the scan throws.
RECURSIVE ScanFrom(_, _)
ScanFrom(lines, i) ==
  IF i < 1 THEN NoLine
  ELSE IF lines[i].t = "result" THEN lines[i]
  ELSE ScanFrom(lines, i - 1)

\* Mutant of parseStreamResult: the scan runs from the first line, so the first
\* result event is returned.
RECURSIVE ScanUpFrom(_, _)
ScanUpFrom(lines, i) ==
  IF i > Len(lines) THEN NoLine
  ELSE IF lines[i].t = "result" THEN lines[i]
  ELSE ScanUpFrom(lines, i + 1)

parseStreamResultFirst(out) == ScanUpFrom(out, 1)

parseStreamResult(out) == ScanFrom(out, Len(out))

\* The 'close' events a child can end with: (code, signal).
CloseEvents ==
  { [code |-> "0", signal |-> "null"], [code |-> "1", signal |-> "null"],
    [code |-> "null", signal |-> "SIGTERM"], [code |-> "null", signal |-> "SIGKILL"],
    [code |-> "null", signal |-> "SIGINT"] }

NoClose == [code |-> "none", signal |-> "none"]

DeepErr(m) == Err(<<"Deep review failed", m>>)

\* Mutant of AgenticParse: a stream without a result event counts as an empty
\* review.
AgenticParseEmptyOnMissing(out) ==
  LET found == parseStreamResult(out)
      wrapper == found.wrapper IN
  IF found = NoLine
    THEN Resolved(NoFindings)
  ELSE IF wrapper.is_error \/ wrapper.subtype # "success"
    THEN Rejected(DeepErr("wrapper.result"))
  ELSE IF wrapper.result.form = "prose"
    THEN Rejected(DeepErr("could not find JSON in response"))
  ELSE IF wrapper.result.form = "badschema"
    THEN Rejected(DeepErr("response validation failed"))
  ELSE Resolved(wrapper.result.findings)

\* The try block of the close handler after a zero exit.
AgenticParse(out) ==
  LET found == parseStreamResult(out)
      wrapper == found.wrapper IN
  IF found = NoLine
    THEN Rejected(DeepErr("no result event found in stream output"))
  ELSE IF wrapper.is_error \/ wrapper.subtype # "success"
    THEN Rejected(DeepErr("wrapper.result"))
  ELSE IF wrapper.result.form = "prose"
    THEN Rejected(DeepErr("could not find JSON in response"))
  ELSE IF wrapper.result.form = "badschema"
    THEN Rejected(DeepErr("response validation failed"))
  ELSE Resolved(wrapper.result.findings)

\* What the close handler settles the promise with.
CloseOutcome(ev, out, maxTurns) ==
  IF ev.signal = "SIGTERM" \/ ev.signal = "SIGKILL"
    THEN Rejected(DeepErr("timed out after 10 minutes"))
  ELSE IF ev.code # "0"
    THEN IF maxTurns
           THEN Rejected(DeepErr("max turns reached without completing the review"))
           ELSE Rejected(DeepErr("claude exited with code"))
  ELSE AgenticParse(out)

\* Mutant of clearTimeout: the timer is left armed.
clearTimeoutNot(t) == t

clearTimeout(t) == IF t = "armed" THEN "cleared" ELSE t

\* The Promise executor: spawn, the handlers, the timer.
AgenticSpawn ==
  /\ mode = "agentic"
  /\ pc = "start"
  /\ spawns' = Append(spawns, [cmd |-> "claude", args |-> AgenticArgs,
                               env |-> filterEnv(parentEnv)])
  /\ child' = "running"
  /\ stdout' = <<>>
  /\ stderrMax' = FALSE
  /\ timer' = "armed"
  /\ settled' = FALSE
  /\ pc' = "await"
  /\ UNCHANGED <<mode, parentEnv, engineLog, attempt, lastError, outcome, errored, closeEvt>>
  /\ UNCHANGED <<partVars, memberVars, parseVars, extVars>>

\* child.stdout 'data'
StdoutData ==
  /\ mode = "agentic"
  /\ child = "running"
  /\ Len(stdout) < MaxStdoutLines
  /\ \E chunk \in StreamLines : stdout' = Append(stdout, chunk)
  /\ UNCHANGED <<mode, pc, parentEnv, spawns, engineLog, attempt, lastError, outcome, child,
                 stderrMax, timer, settled, errored, closeEvt>>
  /\ UNCHANGED <<partVars, memberVars, parseVars, extVars>>

\* child.stderr 'data' with text that mentions max turns
StderrData ==
  /\ mode = "agentic"
  /\ child = "running"
  /\ ~stderrMax
  /\ stderrMax' = TRUE
  /\ UNCHANGED <<mode, pc, parentEnv, spawns, engineLog, attempt, lastError, outcome, child,
                 stdout, timer, settled, errored, closeEvt>>
  /\ UNCHANGED <<partVars, memberVars, parseVars, extVars>>

\* The setTimeout callback: child.kill('SIGTERM')
TimeoutFires ==
  /\ mode = "agentic"
  /\ timer = "armed"
  /\ timer' = "fired"
  /\ UNCHANGED <<mode, pc, parentEnv, spawns, engineLog, attempt, lastError, outcome, child,
                 stdout, stderrMax, settled, errored, closeEvt>>
  /\ UNCHANGED <<partVars, memberVars, parseVars, extVars>>

\* child 'error'
ChildError ==
  /\ mode = "agentic"
  /\ child = "running"
  /\ ~errored
  /\ errored' = TRUE
  /\ timer' = clearTimeout(timer)
  /\ IF ~settled
       THEN /\ settled' = TRUE
            /\ outcome' = Rejected(DeepErr("err.message"))
            /\ pc' = "done"
       ELSE UNCHANGED <<settled, outcome, pc>>
  /\ UNCHANGED <<mode, parentEnv, spawns, engineLog, attempt, lastError, child, stdout,
                 stderrMax, closeEvt>>
  /\ UNCHANGED <<partVars, memberVars, parseVars, extVars>>

\* child 'close'
ChildClose ==
  /\ mode = "agentic"
  /\ child = "running"
  /\ \E ev \in CloseEvents :
       /\ closeEvt' = ev
       /\ child' = "closed"
       /\ timer' = clearTimeout(timer)
       /\ IF settled
            THEN UNCHANGED <<settled, outcome, pc>>
            ELSE /\ settled' = TRUE
                 /\ outcome' = CloseOutcome(ev, stdout, stderrMax)
                 /\ pc' = "done"
  /\ UNCHANGED <<mode, parentEnv, spawns, engineLog, attempt, lastError, stdout, stderrMax,
                 errored>>
  /\ UNCHANGED <<partVars, memberVars, parseVars, extVars>>

(***************************************************************************)
(* Initial states and specifications                                       *)
(***************************************************************************)
OrchIdle ==
  /\ pc = "start"
  /\ spawns = <<>>
  /\ engineLog = <<>>
  /\ attempt = 0
  /\ lastError = NoError
  /\ outcome = Pending
  /\ child = "none"
  /\ stdout = <<>>
  /\ stderrMax = FALSE
  /\ timer = "unarmed"
  /\ settled = FALSE
  /\ errored = FALSE
  /\ closeEvt = NoClose

PartIdle ==
  /\ findings = <<>>
  /\ diffHunks = <<>>
  /\ partResult = [done |-> FALSE, inline |-> <<>>, offDiff |-> <<>>]

MemberIdle ==
  /\ hunksArg = <<>>
  /\ lineArg = 0
  /\ memberRes = [done |-> FALSE, value |-> FALSE]

ParseIdle ==
  /\ rawLines = <<>>
  /\ files = <<>>
  /\ current = 0
  /\ oldLineNum = 0
  /\ newLineNum = 0

HunkIdle ==
  /\ hunkLines = <<>>
  /\ result = <<>>
  /\ currentFile = <<>>

EvalIdle ==
  /\ actual = <<>>
  /\ expected = <<>>
  /\ matchResult = [done |-> FALSE, matched |-> <<>>, unmatched_actual |-> <<>>]

\* A quotient of two counts, kept as the pair; den = 0 is NaN (0/0).
Ratio(n, d) == [num |-> n, den |-> d]

MetricIdle ==
  /\ metricsArg = [matched |-> <<>>, unmatched_actual |-> <<>>]
  /\ metrics = [done |-> FALSE, tp |-> 0, fp |-> 0, fn |-> 0, precision |-> Ratio(0, 1),
                recall |-> Ratio(0, 1), hallucinationRate |-> Ratio(0, 1)]

\* The tool runs; deep mode has set activeClonePath before it calls
\* analyzeAgentic.
NoAnswer == <<"-">>

\* The action handler has not begun (or the CLI is not what is being run).
RunIdle ==
  /\ runPc = "fetched"
  /\ cloneSucceeded = FALSE
  /\ runFindings = <<>>
  /\ printed = [findings |-> FALSE, posted |-> FALSE, failure |-> "none"]
  /\ answer = NoAnswer
  /\ exitCode = -1

CliStart ==
  /\ tool = "running"
  /\ activeClonePath = (IF mode = "agentic" THEN "clonePath" ELSE "null")
  /\ cloneDir = (IF mode = "agentic" THEN "present" ELSE "absent")
  /\ sigintScope = "none"
  /\ runOpts = [post |-> FALSE, html |-> FALSE]
  /\ RunIdle

\* A request error of createReview: its status (0: none) and the call it came from.
PostError(status, call) == [status |-> status, call |-> call]

PostPending == [state |-> "pending", url |-> "none", error |-> PostError(0, 0)]

PostIdle ==
  /\ postArgs = [body |-> <<>>, comments |-> <<>>]
  /\ postPc = "start"
  /\ postCalls = <<>>
  /\ postOutcome = PostPending

ReportIdle ==
  /\ reportArg = [diff |-> <<>>, findings |-> <<>>]
  /\ htmlReport = [done |-> FALSE, inline |-> <<>>, diffSections |-> <<>>,
                   offDiffSection |-> <<>>]

RestIdle == PostIdle /\ ReportIdle

ExtIdle == HunkIdle /\ EvalIdle /\ MetricIdle /\ CliStart /\ RestIdle

\* A call of analyzeDiff or of analyzeAgentic.
Init ==
  /\ mode \in {"bounded", "agentic"}
  /\ parentEnv \in BaseEnvs
  /\ OrchIdle /\ PartIdle /\ MemberIdle /\ ParseIdle /\ ExtIdle

Next ==
  \/ AnalyzeDiffSpawn
  \/ AnalyzeDiffSettle
  \/ AgenticSpawn
  \/ StdoutData
  \/ StderrData
  \/ TimeoutFires
  \/ ChildError
  \/ ChildClose

Spec == Init /\ [][Next]_vars

\* The same calls under the scheduling the code relies on: a call that was made
\* runs up to its await, an execFile call settles (execFile ends its child
\* itself), and an armed timer that is not cleared expires. The events of the
\* spawned child (data, error, close) are the engine's to give or not to give.
SpecLive ==
  /\ Init
  /\ [][Next]_vars
  /\ WF_vars(AnalyzeDiffSpawn)
  /\ WF_vars(AnalyzeDiffSettle)
  /\ WF_vars(AgenticSpawn)
  /\ WF_vars(TimeoutFires)

\* if (activeClonePath) rmSync(activeClonePath, { recursive: true, force: true }):
\* the directory afterwards.
rmSync(path, dir) == IF path # "null" THEN "absent" ELSE dir

\* cleanupOnExit(): the clone directory is removed and activeClonePath cleared.
cleanupOnExit(path) == "null"

\* The SIGINT handler of cli.ts: cleanupOnExit(); process.exit(130). The signal
\* reaches the tool alone (kill -INT pid) or its whole process group (Ctrl+C in
\* a terminal); the handler does nothing to the engine subprocess, and Node
\* leaves children running at process.exit.
Interrupt ==
  /\ mode \in {"bounded", "agentic", "deep", "quick"}
  /\ tool = "running"
  /\ \E scope \in {"process", "group"} : sigintScope' = scope
  /\ activeClonePath' = cleanupOnExit(activeClonePath)
  /\ cloneDir' = rmSync(activeClonePath, cloneDir)
  /\ tool' = "exited"
  /\ exitCode' = 130
  /\ UNCHANGED <<runPc, runOpts, cloneSucceeded, runFindings, printed, answer>>
  /\ UNCHANGED <<mode, orchVars, partVars, memberVars, parseVars, hunkVars, evalVars,
                 metricVars,
                 restVars>>

\* The calls while the tool runs, and the interrupt; nothing of the tool runs
\* after process.exit.
NextInterrupt ==
  \/ /\ tool = "running"
     /\ Next
  \/ Interrupt

SpecInterrupt == Init /\ [][NextInterrupt]_vars

\* The same calls, from every parent environment over EnvNames.
InitEnv ==
  /\ mode \in {"bounded", "agentic"}
  /\ parentEnv \in AllEnvs
  /\ OrchIdle /\ PartIdle /\ MemberIdle /\ ParseIdle /\ ExtIdle

SpecEnv == InitEnv /\ [][Next]_vars

(***************************************************************************)
(* The command's action handler (cli.ts), from the fetched PR data on       *)
(***************************************************************************)
EXIT_ANALYSIS_ERROR == 4

\* answer.trim()
RECURSIVE Trim(_)
Trim(t) ==
  IF t # <<>> /\ t[1] = " " THEN Trim(Tail(t))
  ELSE IF t # <<>> /\ t[Len(t)] = " " THEN Trim(SubSeq(t, 1, Len(t) - 1))
  ELSE t

\* .toLowerCase(), on the letters used here
ToLowerCase(t) == [i \in 1..Len(t) |-> IF t[i] = "Y" THEN "y" ELSE t[i]]

\* promptCleanup: answer.trim().toLowerCase() === 'y'
KeepsClone(t) == ToLowerCase(Trim(t)) = <<"y">>

\* The lines a user may type at the prompt.
Answers ==
  { <<"y">>, <<"Y">>, <<" ","y"," ">>, <<>>, <<"n">>, <<"y","e","s">> }

\* What an awaited analysis call (analyzeDiff, analyzeAgentic) settles with.
AnalysisOutcomes ==
  { Resolved(NoFindings), Resolved(SomeFindings), Rejected(Err("analysis failed")) }

\* The finally block of the deep branch: the directory afterwards.
FinallyBlock(path, dir) == IF path # "null" /\ dir = "present" THEN "absent" ELSE dir

\* process.exit(code): nothing pending runs, finally blocks included.
ProcessExit(code) ==
  /\ tool' = "exited"
  /\ exitCode' = code

\* The action's promise rejects: program.parse() does not await it, so Node
\* reports the unhandled rejection with the error as thrown and exits with 1.
UnhandledRejection ==
  /\ printed' = [printed EXCEPT !.failure = "raw"]
  /\ ProcessExit(1)

\* The action handler returns; the process ends with code 0.
HandlerReturns == ProcessExit(0)

\* cli.ts 213-224: deep mode sets activeClonePath and calls cloneRepo, which
\* validates its arguments (a throw is caught as a failed clone), removes an
\* old directory, makes the directory and starts gh repo clone.
CloneStarts ==
  /\ mode = "deep"
  /\ tool = "running"
  /\ runPc = "fetched"
  /\ activeClonePath' = "clonePath"
  /\ \E valid \in BOOLEAN :
       IF valid
         THEN cloneDir' = "present" /\ runPc' = "cloning"
         ELSE cloneDir' = cloneDir /\ runPc' = "fallback"
  /\ UNCHANGED <<tool, sigintScope, runOpts, cloneSucceeded, runFindings, printed, answer,
                 exitCode>>
  /\ UNCHANGED <<mode, orchVars, partVars, memberVars, parseVars, hunkVars, evalVars,
                 metricVars,
                 restVars>>

\* cli.ts 224-230: gh repo clone ends. A failed clone leaves the directory
\* cloneRepo made.
CloneSettles ==
  /\ mode = "deep"
  /\ tool = "running"
  /\ runPc = "cloning"
  /\ \E ok \in BOOLEAN :
       /\ cloneSucceeded' = ok
       /\ runPc' = IF ok THEN "deepAnalysis" ELSE "fallback"
  /\ UNCHANGED <<tool, activeClonePath, sigintScope, runOpts, cloneDir, runFindings, printed,
                 answer, exitCode>>
  /\ UNCHANGED <<mode, orchVars, partVars, memberVars, parseVars, hunkVars, evalVars,
                 metricVars,
                 restVars>>

\* cli.ts 237-250: await analyzeAgentic(...), outside any try with a catch: a
\* rejection leaves through the finally block and out of the handler.
DeepAnalysisSettles ==
  /\ mode = "deep"
  /\ tool = "running"
  /\ runPc = "deepAnalysis"
  /\ \E r \in AnalysisOutcomes :
       IF r.state = "resolved"
         THEN /\ runFindings' = r.findings
              /\ runPc' = "output"
              /\ UNCHANGED <<tool, activeClonePath, cloneDir, printed, exitCode>>
         ELSE /\ cloneDir' = FinallyBlock(activeClonePath, cloneDir)
              /\ activeClonePath' = "null"
              /\ UnhandledRejection
              /\ UNCHANGED <<runFindings, runPc>>
  /\ UNCHANGED <<sigintScope, runOpts, cloneSucceeded, answer>>
  /\ UNCHANGED <<mode, orchVars, partVars, memberVars, parseVars, hunkVars, evalVars,
                 metricVars,
                 restVars>>

\* cli.ts 251-273 (fallback after a failed clone) and 355-375 (quick mode):
\* await analyzeDiff(...) in a try whose catch prints the sanitized error and
\* calls process.exit(EXIT_ANALYSIS_ERROR).
QuickAnalysisSettles ==
  /\ \/ mode = "deep" /\ runPc = "fallback"
     \/ mode = "quick" /\ runPc = "fetched"
  /\ tool = "running"
  /\ \E r \in AnalysisOutcomes :
       IF r.state = "resolved"
         THEN /\ runFindings' = r.findings
              /\ runPc' = "output"
              /\ UNCHANGED <<tool, printed, exitCode>>
         ELSE /\ printed' = [printed EXCEPT !.failure = "sanitized"]
              /\ ProcessExit(EXIT_ANALYSIS_ERROR)
              /\ UNCHANGED <<runFindings, runPc>>
  /\ UNCHANGED <<activeClonePath, sigintScope, runOpts, cloneDir, cloneSucceeded, answer>>
  /\ UNCHANGED <<mode, orchVars, partVars, memberVars, parseVars, hunkVars, evalVars,
                 metricVars,
                 restVars>>

\* What follows step 7 in the handler: the prompt when the clone succeeded,
\* else (deep) the finally block and the return, else (quick) the return.
AfterPosting ==
  IF mode = "deep" /\ cloneSucceeded
    THEN /\ runPc' = "prompt"
         /\ UNCHANGED <<tool, activeClonePath, cloneDir, exitCode>>
    ELSE /\ runPc' = "returned"
         /\ cloneDir' = (IF mode = "deep" THEN FinallyBlock(activeClonePath, cloneDir)
                                          ELSE cloneDir)
         /\ activeClonePath' = "null"
         /\ HandlerReturns

\* cli.ts 275-334: the findings are printed, the HTML report is written when
\* asked for (which may throw), and with --post and findings the review is
\* sent.
PrintsFindings ==
  /\ mode \in {"deep", "quick"}
  /\ tool = "running"
  /\ runPc = "output"
  /\ \E htmlThrows \in {FALSE, runOpts.html} :
       IF htmlThrows
         THEN /\ cloneDir' = (IF mode = "deep" THEN FinallyBlock(activeClonePath, cloneDir)
                                               ELSE cloneDir)
              /\ activeClonePath' = "null"
              /\ printed' = [printed EXCEPT !.findings = TRUE, !.failure = "raw"]
              /\ ProcessExit(1)
              /\ UNCHANGED runPc
         ELSE IF runOpts.post /\ runFindings # <<>>
           THEN /\ printed' = [printed EXCEPT !.findings = TRUE]
                /\ runPc' = "posting"
                /\ UNCHANGED <<tool, activeClonePath, cloneDir, exitCode>>
           ELSE /\ printed' = [printed EXCEPT !.findings = TRUE]
                /\ AfterPosting
  /\ UNCHANGED <<sigintScope, runOpts, cloneSucceeded, runFindings, answer>>
  /\ UNCHANGED <<mode, orchVars, partVars, memberVars, parseVars, hunkVars, evalVars,
                 metricVars,
                 restVars>>

\* cli.ts 305-333: await postReview(...) ends; a failure is caught and reported.
PostSettles ==
  /\ mode \in {"deep", "quick"}
  /\ tool = "running"
  /\ runPc = "posting"
  /\ \E ok \in BOOLEAN : printed' = [printed EXCEPT !.posted = ok]
  /\ AfterPosting
  /\ UNCHANGED <<sigintScope, runOpts, cloneSucceeded, runFindings, answer>>
  /\ UNCHANGED <<mode, orchVars, partVars, memberVars, parseVars, hunkVars, evalVars,
                 metricVars,
                 restVars>>

\* cli.ts 336-350 with promptCleanup: the user answers, the clone is kept or
\* removed by promptCleanup, then the finally block runs and the handler returns.
PromptAnswered ==
  /\ mode = "deep"
  /\ tool = "running"
  /\ runPc = "prompt"
  /\ \E a \in Answers :
       /\ answer' = a
       /\ cloneDir' = FinallyBlock(activeClonePath,
                                   IF KeepsClone(a) THEN cloneDir ELSE "absent")
  /\ activeClonePath' = "null"
  /\ runPc' = "returned"
  /\ HandlerReturns
  /\ UNCHANGED <<sigintScope, runOpts, cloneSucceeded, runFindings, printed>>
  /\ UNCHANGED <<mode, orchVars, partVars, memberVars, parseVars, hunkVars, evalVars,
                 metricVars,
                 restVars>>

NextCli ==
  \/ CloneStarts
  \/ CloneSettles
  \/ DeepAnalysisSettles
  \/ QuickAnalysisSettles
  \/ PrintsFindings
  \/ PostSettles
  \/ PromptAnswered
  \/ Interrupt

\* A run of the command with --deep or without, from the point where the PR
\* data has been fetched.
InitCli ==
  /\ mode \in {"deep", "quick"}
  /\ parentEnv = EnvOf({})
  /\ OrchIdle /\ PartIdle /\ MemberIdle /\ ParseIdle
  /\ HunkIdle /\ EvalIdle /\ MetricIdle /\ RestIdle
  /\ tool = "running"
  /\ activeClonePath = "null"
  /\ cloneDir = "absent"
  /\ sigintScope = "none"
  /\ runOpts \in [post : BOOLEAN, html : BOOLEAN]
  /\ RunIdle

SpecCli == InitCli /\ [][NextCli]_vars

(***************************************************************************)
(* Posting the review (github.ts: postReview)                              *)
(***************************************************************************)
PostResolved(url) == [state |-> "resolved", url |-> url, error |-> PostError(0, 0)]
PostRejected(e) == [state |-> "rejected", url |-> "none", error |-> e]

\* The text added for one comment, as its pieces: the opening mark, the path,
\* a colon, the line, the closing mark, the comment's text and a line end.
CommentText(c) == <<"open", c.path, ":", ToString(c.line), "close", c.body, "eol">>

\* The for loop over comments from position i.
RECURSIVE AppendComments(_, _, _)
AppendComments(text, comments, i) ==
  IF i > Len(comments) THEN text
  ELSE AppendComments(text \o CommentText(comments[i]), comments, i + 1)

\* fallbackBody
FallbackBody(body, comments) ==
  AppendComments(body \o <<"Inline comments could not be posted">>,
                 comments, 1)

\* Mutant of ShouldFallback: every 422 is retried.
ShouldFallbackAny422(status, comments) == status = 422

\* status === 422 && comments.length > 0
ShouldFallback(status, comments) == status = 422 /\ Len(comments) > 0

MaxComments == 2

\* Inline comments: path, line and text.
PostComments ==
  { [path |-> "a", line |-> 1, body |-> "c1"],
    [path |-> "a", line |-> 2, body |-> "c2"],
    [path |-> "b", line |-> 1, body |-> "c3"] }

\* The statuses createReview fails with: invalid positions, not found, and an
\* error without a status (0).
PostStatuses == {422, 404, 0}

\* postReview is called: the first createReview goes out with body and comments.
CreateReviewFirst ==
  /\ mode = "post"
  /\ postPc = "start"
  /\ postCalls' = Append(postCalls, [body |-> postArgs.body, comments |-> postArgs.comments])
  /\ postPc' = "first"
  /\ UNCHANGED <<postArgs, postOutcome>>
  /\ UNCHANGED <<mode, orchVars, partVars, memberVars, parseVars, hunkVars, evalVars,
                 metricVars, cliVars, reportVars>>

\* The first createReview settles: its URL is returned, or the catch block
\* retries without comments or rethrows.
FirstCreateSettles ==
  /\ mode = "post"
  /\ postPc = "first"
  /\ \/ /\ postOutcome' = PostResolved("url1")
        /\ postPc' = "done"
        /\ UNCHANGED postCalls
     \/ \E status \in PostStatuses :
          IF ShouldFallback(status, postArgs.comments)
            THEN /\ postCalls' = Append(postCalls,
                                        [body |-> FallbackBody(postArgs.body, postArgs.comments),
                                         comments |-> <<>>])
                 /\ postPc' = "second"
                 /\ UNCHANGED postOutcome
            ELSE /\ postOutcome' = PostRejected(PostError(status, 1))
                 /\ postPc' = "done"
                 /\ UNCHANGED postCalls
  /\ UNCHANGED postArgs
  /\ UNCHANGED <<mode, orchVars, partVars, memberVars, parseVars, hunkVars, evalVars,
                 metricVars, cliVars, reportVars>>

\* The second createReview settles: its URL is returned or its error leaves
\* postReview.
SecondCreateSettles ==
  /\ mode = "post"
  /\ postPc = "second"
  /\ \/ postOutcome' = PostResolved("url2")
     \/ \E status \in PostStatuses : postOutcome' = PostRejected(PostError(status, 2))
  /\ postPc' = "done"
  /\ UNCHANGED <<postArgs, postCalls>>
  /\ UNCHANGED <<mode, orchVars, partVars, memberVars, parseVars, hunkVars, evalVars,
                 metricVars, cliVars, reportVars>>

NextPost ==
  \/ CreateReviewFirst
  \/ FirstCreateSettles
  \/ SecondCreateSettles

InitPost ==
  /\ mode = "post"
  /\ parentEnv = EnvOf({})
  /\ OrchIdle /\ PartIdle /\ MemberIdle /\ ParseIdle
  /\ HunkIdle /\ EvalIdle /\ MetricIdle /\ CliStart
  /\ postArgs \in [body : {<<>>, <<"B">>}, comments : UNION {[1..k -> PostComments] : k \in 0..MaxComments}]
  /\ postPc = "start"
  /\ postCalls = <<>>
  /\ postOutcome = PostPending
  /\ ReportIdle

SpecPost == InitPost /\ [][NextPost]_vars

(***************************************************************************)
(* Hunk membership and finding partition (diff-parser.ts,                  *)
(* review-builder.ts)                                                      *)
(***************************************************************************)
\* Mutant of isLineInDiff: the end of the range is included.
isLineInDiffInclusive(hunks, line) ==
  \E i \in DOMAIN hunks :
    line >= hunks[i].newStart /\ line <= hunks[i].newStart + hunks[i].newCount

isLineInDiff(hunks, line) ==
  \E i \in DOMAIN hunks :
    line >= hunks[i].newStart /\ line < hunks[i].newStart + hunks[i].newCount

\* Mutant of IsInline: every finding of a file of the diff is inline.
IsInlineAnyLine(finding, dh) == finding.file \in DOMAIN dh

\* The test of the loop body: hunks && isLineInDiff(hunks, finding.line), where
\* hunks = diffHunks.get(finding.file) is undefined for a file not in the map.
IsInline(finding, dh) ==
  IF finding.file \notin DOMAIN dh THEN FALSE
  ELSE isLineInDiff(dh[finding.file], finding.line)

RECURSIVE PartitionFrom(_, _, _, _)
PartitionFrom(fs, dh, i, acc) ==
  IF i > Len(fs) THEN acc
  ELSE IF IsInline(fs[i], dh)
    THEN PartitionFrom(fs, dh, i + 1, [acc EXCEPT !.inline = Append(@, fs[i])])
    ELSE PartitionFrom(fs, dh, i + 1, [acc EXCEPT !.offDiff = Append(@, fs[i])])

\* The loop with a finding of a file outside the diff skipped.
RECURSIVE PartitionSkipping(_, _, _, _)
PartitionSkipping(fs, dh, i, acc) ==
  IF i > Len(fs) THEN acc
  ELSE IF fs[i].file \notin DOMAIN dh THEN PartitionSkipping(fs, dh, i + 1, acc)
  ELSE IF IsInline(fs[i], dh)
    THEN PartitionSkipping(fs, dh, i + 1, [acc EXCEPT !.inline = Append(@, fs[i])])
    ELSE PartitionSkipping(fs, dh, i + 1, [acc EXCEPT !.offDiff = Append(@, fs[i])])

\* Mutant of partitionFindings: findings of unknown files are dropped.
partitionFindingsDropUnknown(fs, dh) ==
  PartitionSkipping(fs, dh, 1, [done |-> TRUE, inline |-> <<>>, offDiff |-> <<>>])

partitionFindings(fs, dh) ==
  PartitionFrom(fs, dh, 1, [done |-> TRUE, inline |-> <<>>, offDiff |-> <<>>])

Files == {"a", "b"}

MaxStart == 3
MaxCount == 2
MaxHunks == 2
MaxLine == 6

Hunks == [newStart : 1..MaxStart, newCount : 0..MaxCount]

SeqsUpTo(S, n) == UNION {[1..k -> S] : k \in 0..n}

\* A call isLineInDiff(hunksArg, lineArg).
IsLineInDiffCall ==
  /\ mode = "member"
  /\ ~memberRes.done
  /\ memberRes' = [done |-> TRUE, value |-> isLineInDiff(hunksArg, lineArg)]
  /\ UNCHANGED <<mode, hunksArg, lineArg, orchVars, partVars, parseVars, extVars>>

InitMember ==
  /\ mode = "member"
  /\ hunksArg \in SeqsUpTo(Hunks, MaxHunks)
  /\ lineArg \in 0..MaxLine
  /\ memberRes = [done |-> FALSE, value |-> FALSE]
  /\ parentEnv = EnvOf({})
  /\ OrchIdle /\ PartIdle /\ ParseIdle /\ ExtIdle

SpecMember == InitMember /\ [][IsLineInDiffCall]_vars

MaxFindings == 3
MaxFindingLine == 3

Findings == [file : Files, line : 1..MaxFindingLine]

Hunk(s, c) == [newStart |-> s, newCount |-> c]

\* The hunk lists a file of the diff may have: no hunk, one hunk, two hunks with
\* a gap between them, a hunk of length zero.
HunkListChoices == { <<>>, <<Hunk(2, 2)>>, <<Hunk(1, 1), Hunk(3, 1)>>, <<Hunk(2, 0)>> }

\* The hunk maps: any set of files, each with one of the hunk lists.
HunkMaps == UNION {[D -> HunkListChoices] : D \in SUBSET Files}

\* A call partitionFindings(findings, diffHunks).
PartitionFindingsCall ==
  /\ mode = "partition"
  /\ ~partResult.done
  /\ partResult' = partitionFindings(findings, diffHunks)
  /\ UNCHANGED <<mode, findings, diffHunks, orchVars, memberVars, parseVars, extVars>>

InitPartition ==
  /\ mode = "partition"
  /\ findings \in SeqsUpTo(Findings, MaxFindings)
  /\ diffHunks \in HunkMaps
  /\ partResult = [done |-> FALSE, inline |-> <<>>, offDiff |-> <<>>]
  /\ parentEnv = EnvOf({})
  /\ OrchIdle /\ MemberIdle /\ ParseIdle /\ ExtIdle

SpecPartition == InitPartition /\ [][PartitionFindingsCall]_vars

(***************************************************************************)
(* The detailed diff parser: parseDetailedDiff (html-diff-parser.ts)       *)
(***************************************************************************)
Digits == {"0", "1", "2", "3", "4", "5", "6", "7", "8", "9"}

DigitValue(c) ==
  CASE c = "0" -> 0 [] c = "1" -> 1 [] c = "2" -> 2 [] c = "3" -> 3 [] c = "4" -> 4
    [] c = "5" -> 5 [] c = "6" -> 6 [] c = "7" -> 7 [] c = "8" -> 8 [] c = "9" -> 9

\* The index after the run of digits of s that starts at i (i when there is none).
RECURSIVE DigitsEnd(_, _)
DigitsEnd(s, i) ==
  IF i <= Len(s) /\ s[i] \in Digits THEN DigitsEnd(s, i + 1) ELSE i

\* parseInt(s[i..j-1], 10)
RECURSIVE ParseInt(_, _, _)
ParseInt(s, i, j) ==
  IF j <= i THEN 0 ELSE 10 * ParseInt(s, i, j - 1) + DigitValue(s[j - 1])

\* s has the text t at index i.
HasAt(s, i, t) == i + Len(t) - 1 <= Len(s) /\ SubSeq(s, i, i + Len(t) - 1) = t

\* s.slice(n)
Slice(s, n) == SubSeq(s, n + 1, Len(s))

FileHeaderPrefix == <<"d","i","f","f"," ","-","-","g","i","t"," ","a","/">>

\* FILE_HEADER_RE = /^diff --git a\/.+ b\/(.+)$/: the places where " b/" can
\* stand with a character before it and one after it.
FileHeaderSplits(s) ==
  { j \in (Len(FileHeaderPrefix) + 2)..(Len(s) - 3) : HasAt(s, j, <<" ","b","/">>) }

IsFileHeader(s) == StartsWith(s, FileHeaderPrefix) /\ FileHeaderSplits(s) # {}

\* fileMatch[1]: the first .+ is greedy, so the last split is taken.
FileHeaderName(s) ==
  LET j == CHOOSE k \in FileHeaderSplits(s) : \A m \in FileHeaderSplits(s) : m <= k
  IN Slice(s, j + 2)

\* HUNK_HEADER_RE = /^@@ -(\d+)(?:,(\d+))? \+(\d+)(?:,(\d+))? @@/
\* [ok, oldStart, newStart, hasNewCount, newCount]: whether s matches, parseInt
\* of groups 1 and 3, whether group 4 is defined, and its parseInt.
MatchHunkHeader(s) ==
  LET e1 == DigitsEnd(s, 5)
      c1 == IF HasAt(s, e1, <<",">>) /\ DigitsEnd(s, e1 + 1) > e1 + 1
              THEN DigitsEnd(s, e1 + 1) ELSE e1
      b3 == c1 + 2
      e3 == DigitsEnd(s, b3)
      c3 == IF HasAt(s, e3, <<",">>) /\ DigitsEnd(s, e3 + 1) > e3 + 1
              THEN DigitsEnd(s, e3 + 1) ELSE e3
      ok == /\ StartsWith(s, <<"@","@"," ","-">>)
            /\ e1 > 5
            /\ HasAt(s, c1, <<" ","+">>)
            /\ e3 > b3
            /\ HasAt(s, c3, <<" ","@","@">>)
  IN IF ok
       THEN [ok |-> TRUE, oldStart |-> ParseInt(s, 5, e1), newStart |-> ParseInt(s, b3, e3),
             hasNewCount |-> c3 > e3, newCount |-> ParseInt(s, e3 + 1, c3)]
       ELSE [ok |-> FALSE, oldStart |-> 0, newStart |-> 0,
             hasNewCount |-> FALSE, newCount |-> 0]

\* null in oldLineNum / newLineNum
Null == -1

MetadataPrefixes ==
  { <<"-","-","-"," ">>,
    <<"+","+","+"," ">>,
    <<"i","n","d","e","x"," ">>,
    <<"n","e","w"," ","f","i","l","e"," ","m","o","d","e">>,
    <<"d","e","l","e","t","e","d"," ","f","i","l","e"," ","m","o","d","e">>,
    <<"o","l","d"," ","m","o","d","e">>,
    <<"n","e","w"," ","m","o","d","e">>,
    <<"s","i","m","i","l","a","r","i","t","y"," ","i","n","d","e","x">>,
    <<"d","i","s","s","i","m","i","l","a","r","i","t","y"," ","i","n","d","e","x">>,
    <<"B","i","n","a","r","y"," ","f","i","l","e","s">> }

IsMetadata(line) == \E p \in MetadataPrefixes : StartsWith(line, p)

\* Mutant of DiffLine: the two numbers are stored in each other's field.
DiffLineSwapped(t, o, n, c) ==
  [type |-> t, oldLineNum |-> n, newLineNum |-> o, content |-> c]

DiffLine(t, o, n, c) == [type |-> t, oldLineNum |-> o, newLineNum |-> n, content |-> c]

\* current.lines.push(l)
PushLine(fs, cur, l) == [fs EXCEPT ![cur].lines = Append(@, l)]

\* One pass of the for loop of parseDetailedDiff over line, from the state
\* st = [files, current, oldLineNum, newLineNum].
ParseLine(st, line) ==
  IF IsFileHeader(line)
    THEN [st EXCEPT
            !.files = Append(@, [filename |-> FileHeaderName(line),
                                 oldFilename |-> FileHeaderName(line),
                                 status |-> "modified", lines |-> <<>>]),
            !.current = Len(st.files) + 1]
  ELSE IF st.current = 0 THEN st
  ELSE IF StartsWith(line, <<"r","e","n","a","m","e"," ","f","r","o","m"," ">>)
    THEN [st EXCEPT !.files[st.current].oldFilename = Slice(line, 12),
                    !.files[st.current].status = "renamed"]
  ELSE IF StartsWith(line, <<"r","e","n","a","m","e"," ","t","o"," ">>)
    THEN [st EXCEPT !.files[st.current].filename = Slice(line, 10),
                    !.files[st.current].status = "renamed"]
  ELSE IF StartsWith(line, <<"-","-","-"," ","/","d","e","v","/","n","u","l","l">>)
    THEN [st EXCEPT !.files[st.current].status = "added"]
  ELSE IF StartsWith(line, <<"+","+","+"," ","/","d","e","v","/","n","u","l","l">>)
    THEN [st EXCEPT !.files[st.current].status = "deleted"]
  ELSE IF IsMetadata(line) THEN st
  ELSE IF StartsWith(line, <<"\\"," ">>) THEN st
  ELSE IF MatchHunkHeader(line).ok
    THEN [st EXCEPT
            !.oldLineNum = MatchHunkHeader(line).oldStart,
            !.newLineNum = MatchHunkHeader(line).newStart,
            !.files = PushLine(@, st.current, DiffLine("hunk-header", Null, Null, line))]
  ELSE IF StartsWith(line, <<"+">>)
    THEN [st EXCEPT
            !.files = PushLine(@, st.current,
                               DiffLine("addition", Null, st.newLineNum, Slice(line, 1))),
            !.newLineNum = @ + 1]
  ELSE IF StartsWith(line, <<"-">>)
    THEN [st EXCEPT
            !.files = PushLine(@, st.current,
                               DiffLine("deletion", st.oldLineNum, Null, Slice(line, 1))),
            !.oldLineNum = @ + 1]
  ELSE IF StartsWith(line, <<" ">>)
    THEN [st EXCEPT
            !.files = PushLine(@, st.current,
                               DiffLine("context", st.oldLineNum, st.newLineNum,
                                        Slice(line, 1))),
            !.oldLineNum = @ + 1,
            !.newLineNum = @ + 1]
  ELSE st

\* The whole loop of parseDetailedDiff over lines[i..], from the state st.
RECURSIVE ParseFrom(_, _, _)
ParseFrom(st, lines, i) ==
  IF i > Len(lines) THEN st ELSE ParseFrom(ParseLine(st, lines[i]), lines, i + 1)

\* parseDetailedDiff(rawDiff), rawDiff given as its lines.
parseDetailedDiff(lines) ==
  ParseFrom([files |-> <<>>, current |-> 0, oldLineNum |-> 0, newLineNum |-> 0],
            lines, 1).files

MaxDiffLines == 5

\* The lines a diff is made of here: a file header, two hunk headers, an added, a
\* removed and an unchanged line, and a removed line "-- x" and an added line
\* "++ x" (as in a diff of SQL or Lua comments, or of C).
DiffLineTexts ==
  { <<"d","i","f","f"," ","-","-","g","i","t"," ","a","/","a"," ","b","/","a">>,
    <<"@","@"," ","-","1",",","3"," ","+","1",",","4"," ","@","@">>,
    <<"@","@"," ","-","1","0"," ","+","1","2",",","3"," ","@","@">>,
    <<"+","x">>,
    <<"-","x">>,
    <<" ","x">>,
    <<"-","-","-"," ","x">>,
    <<"+","+","+"," ","x">> }

\* The loop of parseDetailedDiff takes the next line of rawDiff. (The guard
\* before the loop returns [] for blank text, as the loop does: no blank line
\* is a file header.)
ParseNextLine ==
  /\ mode = "parse"
  /\ Len(rawLines) < MaxDiffLines
  /\ \E line \in DiffLineTexts :
       LET st == ParseLine([files |-> files, current |-> current,
                            oldLineNum |-> oldLineNum, newLineNum |-> newLineNum], line)
       IN /\ rawLines' = Append(rawLines, line)
          /\ files' = st.files
          /\ current' = st.current
          /\ oldLineNum' = st.oldLineNum
          /\ newLineNum' = st.newLineNum
  /\ UNCHANGED <<mode, orchVars, partVars, memberVars, extVars>>

InitParse ==
  /\ mode = "parse"
  /\ parentEnv = EnvOf({})
  /\ OrchIdle /\ PartIdle /\ MemberIdle /\ ParseIdle /\ ExtIdle

SpecParse == InitParse /\ [][ParseNextLine]_vars

(***************************************************************************)
(* Hunk ranges (diff-parser.ts: parseDiffHunks)                            *)
(***************************************************************************)
\* result.has(f): the index of f's entry in result (0: none).
EntryOf(res, f) ==
  IF \E i \in 1..Len(res) : res[i].file = f
    THEN CHOOSE i \in 1..Len(res) : res[i].file = f
    ELSE 0

\* Mutant of HunkOf: the count is stored as the offset of the last line.
HunkOfLastOffset(mt) ==
  [newStart |-> mt.newStart, newCount |-> (IF mt.hasNewCount THEN mt.newCount ELSE 1) - 1]

\* { newStart, newCount } of a matched hunk header; newCount is 1 when group 4
\* is undefined.
HunkOf(mt) ==
  [newStart |-> mt.newStart, newCount |-> IF mt.hasNewCount THEN mt.newCount ELSE 1]

\* One pass of the for loop of parseDiffHunks over line, from the state
\* st = [result, currentFile].
ParseHunksLine(st, line) ==
  IF IsFileHeader(line)
    THEN [st EXCEPT
            !.currentFile = FileHeaderName(line),
            !.result = IF EntryOf(st.result, FileHeaderName(line)) = 0
                         THEN Append(@, [file |-> FileHeaderName(line), hunks |-> <<>>])
                         ELSE @]
  ELSE IF MatchHunkHeader(line).ok /\ st.currentFile # <<>>
    THEN [st EXCEPT
            !.result[EntryOf(st.result, st.currentFile)].hunks =
               Append(@, HunkOf(MatchHunkHeader(line)))]
  ELSE st

MaxHunkLines == 4

\* The lines a diff is made of here: the headers of two files, a hunk header
\* with both counts, one without the old count, the hunk header of a deleted
\* file, that of an added one-line file (no new count), and an added line.
HunkLineTexts ==
  { <<"d","i","f","f"," ","-","-","g","i","t"," ","a","/","a"," ","b","/","a">>,
    <<"d","i","f","f"," ","-","-","g","i","t"," ","a","/","b"," ","b","/","b">>,
    <<"@","@"," ","-","1",",","3"," ","+","1",",","4"," ","@","@">>,
    <<"@","@"," ","-","1","0"," ","+","1","2",",","3"," ","@","@">>,
    <<"@","@"," ","-","1",",","2"," ","+","0",",","0"," ","@","@">>,
    <<"@","@"," ","-","0",",","0"," ","+","1"," ","@","@">>,
    <<"+","x">> }

\* The loop of parseDiffHunks takes the next line of diff.
ParseHunksNextLine ==
  /\ mode = "hunks"
  /\ Len(hunkLines) < MaxHunkLines
  /\ \E line \in HunkLineTexts :
       LET st == ParseHunksLine([result |-> result, currentFile |-> currentFile], line)
       IN /\ hunkLines' = Append(hunkLines, line)
          /\ result' = st.result
          /\ currentFile' = st.currentFile
  /\ UNCHANGED <<mode, orchVars, partVars, memberVars, parseVars, evalVars, metricVars,
                 cliVars,
                 restVars>>

InitHunks ==
  /\ mode = "hunks"
  /\ parentEnv = EnvOf({})
  /\ OrchIdle /\ PartIdle /\ MemberIdle /\ ParseIdle /\ ExtIdle

SpecHunks == InitHunks /\ [][ParseHunksNextLine]_vars

(***************************************************************************)
(* The HTML report (output.ts: generateHtmlReport)                         *)
(***************************************************************************)
\* The whole loop of parseDiffHunks over lines[i..], from the state st.
RECURSIVE ParseHunksFrom(_, _, _)
ParseHunksFrom(st, lines, i) ==
  IF i > Len(lines) THEN st ELSE ParseHunksFrom(ParseHunksLine(st, lines[i]), lines, i + 1)

\* parseDiffHunks(diff), diff given as its lines: the Map from file to hunks.
parseDiffHunks(lines) ==
  LET res == ParseHunksFrom([result |-> <<>>, currentFile |-> <<>>], lines, 1).result
  IN [f \in {res[i].file : i \in 1..Len(res)} |-> res[EntryOf(res, f)].hunks]

\* A finding without endLine.
NoEndLine == 0

\* f.endLine ?? f.line
AttachLine(f) == IF f.endLine = NoEndLine THEN f.line ELSE f.endLine

\* buildFindingMap(findings, filename): attachment line -> findings, in order.
buildFindingMap(fs, filename) ==
  [n \in {AttachLine(fs[i]) : i \in {j \in 1..Len(fs) : fs[j].file = filename}} |->
     SelectSeq(fs, LAMBDA f : f.file = filename /\ AttachLine(f) = n)]

\* renderAnnotationsForLine(findingMap, newLineNum): the findings of the
\* annotation row, <<>> when no row is made.
renderAnnotationsForLine(findingMap, n) ==
  IF n = Null THEN <<>>
  ELSE IF n \notin DOMAIN findingMap THEN <<>>
  ELSE findingMap[n]

\* renderDiffFileSection(file, inlineFindings): for each line of the file, the
\* findings annotated under it.
renderDiffFileSection(file, inlineFindings) ==
  LET findingMap == buildFindingMap(inlineFindings, file.filename)
  IN [k \in 1..Len(file.lines) |->
        renderAnnotationsForLine(findingMap, file.lines[k].newLineNum)]

\* generateHtmlReport(prData, findings, parsed), as far as findings are placed.
generateHtmlReport(diff, fs) ==
  LET diffFiles == parseDetailedDiff(diff)
      hunksByFile == parseDiffHunks(diff)
      part == partitionFindings(fs, hunksByFile)
  IN [done |-> TRUE,
      inline |-> part.inline,
      diffSections |-> [i \in 1..Len(diffFiles) |->
                          renderDiffFileSection(diffFiles[i], part.inline)],
      offDiffSection |-> part.offDiff]

MaxReportFindings == 2

HeaderOfA == <<"d","i","f","f"," ","-","-","g","i","t"," ","a","/","a"," ","b","/","a">>

\* Diffs of file a: a hunk of new lines 1..4 with an added, a removed and three
\* unchanged lines; a hunk of three added lines 12..14; both hunks.
ReportDiffs ==
  { <<HeaderOfA, <<"@","@"," ","-","1",",","3"," ","+","1",",","4"," ","@","@">>,
      <<" ","x">>, <<"-","x">>, <<"+","x">>, <<"+","x">>, <<" ","x">>>>,
    <<HeaderOfA, <<"@","@"," ","-","1","0"," ","+","1","2",",","3"," ","@","@">>,
      <<"+","x">>, <<"+","x">>, <<"+","x">>>>,
    <<HeaderOfA, <<"@","@"," ","-","1",",","3"," ","+","1",",","4"," ","@","@">>,
      <<" ","x">>, <<"+","x">>, <<" ","x">>, <<" ","x">>,
      <<"@","@"," ","-","1","0"," ","+","1","2",",","3"," ","@","@">>,
      <<"+","x">>, <<"+","x">>, <<"+","x">>>> }

\* ReviewFindings: file, line and endLine (a finding on one line or on a range
\* of lines).
ReportFindings ==
  { f \in [file : {<<"a">>, <<"b">>}, line : {2, 4, 5, 13}, endLine : {NoEndLine, 4, 6, 14}] :
      f.endLine = NoEndLine \/ f.endLine > f.line }

\* The findings with their identity: the position in the list.
Identified(fs) ==
  [i \in 1..Len(fs) |-> [id |-> i, file |-> fs[i].file, line |-> fs[i].line,
                          endLine |-> fs[i].endLine]]

\* A call of generateHtmlReport.
GenerateHtmlReportCall ==
  /\ mode = "report"
  /\ ~htmlReport.done
  /\ htmlReport' = generateHtmlReport(reportArg.diff, reportArg.findings)
  /\ UNCHANGED <<mode, reportArg, orchVars, partVars, memberVars, parseVars, hunkVars,
                 evalVars, metricVars, cliVars, postVars>>

InitReport ==
  /\ mode = "report"
  /\ parentEnv = EnvOf({})
  /\ OrchIdle /\ PartIdle /\ MemberIdle /\ ParseIdle
  /\ HunkIdle /\ EvalIdle /\ MetricIdle /\ CliStart /\ PostIdle
  /\ \E d \in ReportDiffs, fs \in SeqsUpTo(ReportFindings, MaxReportFindings) :
       reportArg = [diff |-> d, findings |-> Identified(fs)]
  /\ htmlReport = [done |-> FALSE, inline |-> <<>>, diffSections |-> <<>>,
                   offDiffSection |-> <<>>]

SpecReport == InitReport /\ [][GenerateHtmlReportCall]_vars

(***************************************************************************)
(* Evaluation: matching (eval.ts: matchFindings)                           *)
(***************************************************************************)
\* Math.abs
Abs(x) == IF x < 0 THEN -x ELSE x

\* a.localeCompare(b) on the file names used here.
LocaleCompare(a, b) ==
  LET rank(f) == IF f = "a" THEN 1 ELSE 2
  IN IF rank(a) < rank(b) THEN -1 ELSE IF rank(a) > rank(b) THEN 1 ELSE 0

\* The comparator given to sort: by file, then by line.
CompareExpected(a, b) ==
  IF LocaleCompare(a.file, b.file) # 0 THEN LocaleCompare(a.file, b.file)
  ELSE a.line - b.line

\* x put into the sorted sequence s behind every element that does not compare
\* greater (Array.prototype.sort is stable).
RECURSIVE InsertSorted(_, _)
InsertSorted(s, x) ==
  IF s = <<>> THEN <<x>>
  ELSE IF CompareExpected(s[Len(s)], x) <= 0 THEN Append(s, x)
  ELSE Append(InsertSorted(SubSeq(s, 1, Len(s) - 1), x), s[Len(s)])

RECURSIVE SortFrom(_, _, _)
SortFrom(seq, i, acc) ==
  IF i > Len(seq) THEN acc ELSE SortFrom(seq, i + 1, InsertSorted(acc, seq[i]))

\* Mutant of SortExpected: expected is processed in the order given.
SortExpectedNone(exp) == exp

\* [...expected].sort(comparator)
SortExpected(exp) == SortFrom(exp, 1, <<>>)

\* Mutant of WithinWindow: a distance of 5 is outside the window.
WithinWindowStrict(distance) == distance < 5

\* distance <= 5
WithinWindow(distance) == distance <= 5

\* The inner loop from position i of remaining: [bestIdx, bestDistance], where
\* bestIdx 0 stands for -1 and goes with bestDistance Infinity. remaining holds
\* references into act, as positions.
RECURSIVE BestFrom(_, _, _, _, _)
BestFrom(act, remaining, exp, i, best) ==
  IF i > Len(remaining) THEN best
  ELSE LET a == act[remaining[i]]
           distance == Abs(a.line - exp.line)
       IN IF a.file # exp.file THEN BestFrom(act, remaining, exp, i + 1, best)
          ELSE IF WithinWindow(distance) /\ (best.bestIdx = 0 \/ distance < best.bestDistance)
            THEN BestFrom(act, remaining, exp, i + 1,
                          [bestIdx |-> i, bestDistance |-> distance])
          ELSE BestFrom(act, remaining, exp, i + 1, best)

\* Mutant of Splice: nothing is removed.
SpliceNothing(seq, i) == seq

\* seq after seq.splice(i, 1), i counted from 1.
Splice(seq, i) == SubSeq(seq, 1, i - 1) \o SubSeq(seq, i + 1, Len(seq))

\* The outer loop from position k of sortedExpected. A FindingMatch holds its
\* actual as a position in act (0: null).
RECURSIVE MatchFrom(_, _, _, _, _)
MatchFrom(act, sortedExpected, k, remaining, matched) ==
  IF k > Len(sortedExpected)
    THEN [matched |-> matched, unmatched_actual |-> remaining]
  ELSE LET exp == sortedExpected[k]
           best == BestFrom(act, remaining, exp, 1, [bestIdx |-> 0, bestDistance |-> 0])
       IN IF best.bestIdx > 0
            THEN MatchFrom(act, sortedExpected, k + 1, Splice(remaining, best.bestIdx),
                           Append(matched, [expected |-> exp,
                                            actual |-> remaining[best.bestIdx],
                                            distance |-> best.bestDistance]))
            ELSE MatchFrom(act, sortedExpected, k + 1, remaining,
                           Append(matched, [expected |-> exp, actual |-> 0,
                                            distance |-> -1]))

\* matchFindings(actual, expected)
matchFindings(act, exp) ==
  MatchFrom(act, SortExpected(exp), 1, [i \in 1..Len(act) |-> i], <<>>)

MaxActual == 3
MaxExpected == 2

\* ReviewFindings by file and line: lines at distances 1, 4, 5, 6 and 10 of each
\* other in one file, and a line of another file.
ActualFindings ==
  { [file |-> "a", line |-> 1], [file |-> "a", line |-> 6], [file |-> "a", line |-> 7],
    [file |-> "a", line |-> 11], [file |-> "b", line |-> 6] }

\* EvalFindings by file, line and classification.
ExpectedFindings ==
  { [file |-> "a", line |-> 1, classification |-> "GOOD"],
    [file |-> "a", line |-> 6, classification |-> "GOOD"],
    [file |-> "a", line |-> 6, classification |-> "MEH"],
    [file |-> "a", line |-> 7, classification |-> "BAD"],
    [file |-> "a", line |-> 11, classification |-> "GOOD"],
    [file |-> "b", line |-> 6, classification |-> "MEH"] }

\* A call of matchFindings: actual and expected are left as they are.
MatchFindingsCall ==
  /\ mode = "match"
  /\ ~matchResult.done
  /\ matchResult' = [done |-> TRUE,
                     matched |-> matchFindings(actual, expected).matched,
                     unmatched_actual |-> matchFindings(actual, expected).unmatched_actual]
  /\ UNCHANGED <<mode, actual, expected, orchVars, partVars, memberVars, parseVars, hunkVars,
                 metricVars, cliVars,
                 restVars>>

InitMatch ==
  /\ mode = "match"
  /\ actual \in SeqsUpTo(ActualFindings, MaxActual)
  /\ expected \in SeqsUpTo(ExpectedFindings, MaxExpected)
  /\ matchResult = [done |-> FALSE, matched |-> <<>>, unmatched_actual |-> <<>>]
  /\ parentEnv = EnvOf({})
  /\ OrchIdle /\ PartIdle /\ MemberIdle /\ ParseIdle /\ HunkIdle /\ MetricIdle /\ CliStart /\ RestIdle

SpecMatch == InitMatch /\ [][MatchFindingsCall]_vars

(***************************************************************************)
(* Evaluation: metrics (eval.ts: computeMetrics)                           *)
(***************************************************************************)
\* Mutant of IsFalseNegative: every unmatched record counts.
IsFalseNegativeAnyClass(match) == match.actual = 0

\* The else branch of the loop: fn++ happens.
IsFalseNegative(match) == match.actual = 0 /\ match.expected.classification = "GOOD"

\* The loop over result.matched from position i: [tp, fp, fn].
RECURSIVE CountFrom(_, _, _)
CountFrom(matched, i, c) ==
  IF i > Len(matched) THEN c
  ELSE LET match == matched[i] IN
       IF match.actual # 0
         THEN IF match.expected.classification = "GOOD"
                THEN CountFrom(matched, i + 1, [c EXCEPT !.tp = @ + 1])
                ELSE CountFrom(matched, i + 1, [c EXCEPT !.fp = @ + 1])
         ELSE IF IsFalseNegative(match)
                THEN CountFrom(matched, i + 1, [c EXCEPT !.fn = @ + 1])
                ELSE CountFrom(matched, i + 1, c)

\* result.matched.filter(m => m.actual !== null).length
RECURSIVE FilterWithActual(_, _)
FilterWithActual(matched, i) ==
  IF i > Len(matched) THEN 0
  ELSE (IF matched[i].actual # 0 THEN 1 ELSE 0) + FilterWithActual(matched, i + 1)

\* Mutant of GuardedRatio: no guard against a zero denominator.
UnguardedRatio(n, d, dflt) == Ratio(n, d)

\* d === 0 ? dflt : n / d
GuardedRatio(n, d, dflt) == IF d = 0 THEN dflt ELSE Ratio(n, d)

\* computeMetrics(result), with the counters as they stand at the return.
computeMetrics(res) ==
  LET c == CountFrom(res.matched, 1, [tp |-> 0, fp |-> 0, fn |-> 0])
      hallucinations == Len(res.unmatched_actual)
      totalActual == FilterWithActual(res.matched, 1) + hallucinations
  IN [tp |-> c.tp, fp |-> c.fp, fn |-> c.fn,
      precision |-> GuardedRatio(c.tp, c.tp + c.fp, Ratio(1, 1)),
      recall |-> GuardedRatio(c.tp, c.tp + c.fn, Ratio(1, 1)),
      hallucinationRate |-> GuardedRatio(hallucinations, totalActual, Ratio(0, 1))]

MaxMatched == 3
MaxHallucinations == 2

\* FindingMatch records: each classification, with an actual and without.
FindingMatches ==
  { [expected |-> [file |-> "a", line |-> 1, classification |-> cl],
     actual |-> a, distance |-> IF a = 0 THEN -1 ELSE 0] :
       cl \in {"GOOD", "MEH", "BAD"}, a \in {0, 1} }

\* MatchResults: any list of records, any number of unmatched actuals.
MatchResults ==
  [matched : SeqsUpTo(FindingMatches, MaxMatched),
   unmatched_actual : {[i \in 1..n |-> i] : n \in 0..MaxHallucinations}]

\* A call of computeMetrics.
ComputeMetricsCall ==
  /\ mode = "metrics"
  /\ ~metrics.done
  /\ LET r == computeMetrics(metricsArg)
     IN metrics' = [done |-> TRUE, tp |-> r.tp, fp |-> r.fp, fn |-> r.fn,
                    precision |-> r.precision, recall |-> r.recall,
                    hallucinationRate |-> r.hallucinationRate]
  /\ UNCHANGED <<mode, metricsArg, orchVars, partVars, memberVars, parseVars, hunkVars,
                 evalVars, cliVars,
                 restVars>>

InitMetrics ==
  /\ mode = "metrics"
  /\ metricsArg \in MatchResults
  /\ metrics = [done |-> FALSE, tp |-> 0, fp |-> 0, fn |-> 0, precision |-> Ratio(0, 1),
                recall |-> Ratio(0, 1), hallucinationRate |-> Ratio(0, 1)]
  /\ parentEnv = EnvOf({})
  /\ OrchIdle /\ PartIdle /\ MemberIdle /\ ParseIdle /\ HunkIdle /\ EvalIdle /\ CliStart
  /\ RestIdle

SpecMetrics == InitMetrics /\ [][ComputeMetricsCall]_vars

(***************************************************************************)
(* Claims about the orchestrator                                           *)
(***************************************************************************)
\* An attempt of bounded mode that returns findings: exit 0, a JSON envelope that
\* reports success, and an answer the double parse and the schema accept.
AttemptSucceeds(r) ==
  /\ r.cause = "exit0"
  /\ r.json
  /\ ~r.wrapper.is_error
  /\ r.wrapper.subtype = "success"
  /\ r.wrapper.result.form \in {"json", "embedded"}

AttemptTimedOut(r) == r.cause = "timeout"

\* An envelope that reports failure.
BadEnvelope(w) == w.is_error \/ w.subtype # "success"

\* C1: in bounded mode the engine is invoked at most twice, always with the same
\* arguments; once when the first attempt succeeds (the call returns its
\* findings); and when the first attempt fails for a reason other than timeout
\* it is invoked exactly once more, the call returning the second attempt's
\* findings if it succeeds and failing with the second attempt's error otherwise.
C1_RetryOnce ==
  mode = "bounded" =>
    /\ Len(spawns) <= 2
    /\ \A i \in DOMAIN spawns :
         spawns[i].cmd = spawns[1].cmd /\ spawns[i].args = spawns[1].args
    /\ (Len(engineLog) >= 1 /\ AttemptSucceeds(engineLog[1])) =>
         /\ Len(spawns) = 1
         /\ pc = "done"
         /\ outcome = Resolved(engineLog[1].wrapper.result.findings)
    /\ (Len(engineLog) >= 1 /\ ~AttemptSucceeds(engineLog[1])
          /\ ~AttemptTimedOut(engineLog[1])) =>
         /\ pc = "done" => Len(spawns) = 2 /\ Len(engineLog) = 2
         /\ Len(engineLog) = 2 =>
              /\ pc = "done"
              /\ IF AttemptSucceeds(engineLog[2])
                   THEN outcome = Resolved(engineLog[2].wrapper.result.findings)
                   ELSE /\ outcome.state = "rejected"
                        /\ outcome.error =
                             IF AttemptTimedOut(engineLog[2])
                               THEN TimeoutError
                               ELSE AttemptBody(engineLog[2]).error

\* C1 witness: the first attempt overflowed the buffer, the second was started
\* and failed with a non-success envelope, and the call failed with that error.
C1_Witness ==
  /\ mode = "bounded"
  /\ pc = "done"
  /\ Len(spawns) = 2
  /\ Len(engineLog) = 2
  /\ engineLog[1].cause = "maxbuffer"
  /\ engineLog[2].cause = "exit0" /\ engineLog[2].json /\ engineLog[2].wrapper.is_error
  /\ outcome = Rejected(Err("Claude CLI error"))

\* C2: in bounded mode an attempt that ends by timeout is the last one: the call
\* has failed with the timeout error and no engine was started after it.
C2_TimeoutNoRetry ==
  mode = "bounded" =>
    \A i \in DOMAIN engineLog :
      AttemptTimedOut(engineLog[i]) =>
        /\ i = Len(engineLog)
        /\ Len(spawns) = i
        /\ pc = "done"
        /\ outcome = Rejected(TimeoutError)

\* C2 witness: the second attempt timed out.
C2_Witness ==
  /\ mode = "bounded"
  /\ Len(engineLog) = 2
  /\ AttemptTimedOut(engineLog[2])
  /\ outcome = Rejected(TimeoutError)

HasResultEvent(out) == \E i \in DOMAIN out : out[i].t = "result"

\* C3: streaming mode starts the engine exactly once, never with the bounded
\* arguments; the call resolves only after a zero exit without signal whose
\* stdout holds a result event, and after any other close it has rejected.
C3_StreamingHardFailure ==
  mode = "agentic" =>
    /\ Len(spawns) <= 1
    /\ pc # "start" => Len(spawns) = 1
    /\ \A i \in DOMAIN spawns : spawns[i].args = AgenticArgs
    /\ outcome.state = "resolved" =>
         /\ closeEvt.code = "0"
         /\ closeEvt.signal = "null"
         /\ HasResultEvent(stdout)
    /\ (child = "closed"
          /\ (closeEvt.code # "0" \/ closeEvt.signal # "null" \/ ~HasResultEvent(stdout))) =>
         outcome.state = "rejected"

\* C3 witness: the engine printed a successful result event and then exited
\* non-zero; the call rejected.
C3_Witness ==
  /\ mode = "agentic"
  /\ child = "closed"
  /\ closeEvt.code = "1"
  /\ Len(spawns) = 1
  /\ \E i \in DOMAIN stdout :
       /\ stdout[i].t = "result"
       /\ ~BadEnvelope(stdout[i].wrapper)
       /\ stdout[i].wrapper.result.form = "json"
  /\ outcome.state = "rejected"

\* The last result event of the stream is the one at i.
LastResultAt(out, i) ==
  /\ i \in DOMAIN out
  /\ out[i].t = "result"
  /\ \A j \in DOMAIN out : j > i => out[j].t # "result"

\* C4: an envelope with is_error true or a subtype other than success never
\* yields a result. Bounded mode: such an attempt does not resolve the call, and
\* when it is the first attempt the engine is started once more. Streaming mode:
\* a resolved call's envelope (the last result event) reports success.
C4_NonSuccessEnvelopeFails ==
  /\ mode = "bounded" =>
       \A i \in DOMAIN engineLog :
         (engineLog[i].cause = "exit0" /\ engineLog[i].json
            /\ BadEnvelope(engineLog[i].wrapper)) =>
           /\ i = Len(engineLog) => outcome.state # "resolved"
           /\ i = 1 => \/ pc = "start" /\ attempt = 1 /\ Len(spawns) = 1
                       \/ Len(spawns) = 2
           /\ i = 2 => pc = "done" /\ outcome.state = "rejected"
  /\ mode = "agentic" =>
       /\ outcome.state = "resolved" =>
            \E i \in DOMAIN stdout :
              LastResultAt(stdout, i) /\ ~BadEnvelope(stdout[i].wrapper)
       /\ \A i \in DOMAIN stdout :
            (child = "closed" /\ LastResultAt(stdout, i)
               /\ BadEnvelope(stdout[i].wrapper)) => outcome.state = "rejected"

\* C4 witness: the first envelope had is_error true and a well-formed findings
\* answer; the engine was started again and the second envelope was the same;
\* the call failed.
C4_Witness ==
  /\ mode = "bounded"
  /\ pc = "done"
  /\ Len(spawns) = 2
  /\ Len(engineLog) = 2
  /\ \A i \in {1, 2} :
       /\ engineLog[i].cause = "exit0"
       /\ engineLog[i].json
       /\ engineLog[i].wrapper.is_error
       /\ engineLog[i].wrapper.subtype = "success"
       /\ engineLog[i].wrapper.result = [form |-> "json", findings |-> SomeFindings]
  /\ outcome.state = "rejected"

\* What a call settles with when the envelope it uses is w.
EnvelopeOutcome(w) ==
  IF BadEnvelope(w) THEN Rejected(DeepErr("wrapper.result"))
  ELSE IF w.result.form = "prose" THEN Rejected(DeepErr("could not find JSON in response"))
  ELSE IF w.result.form = "badschema" THEN Rejected(DeepErr("response validation failed"))
  ELSE Resolved(w.result.findings)

\* The close handler decided the call, after a zero exit without signal.
SettledByCleanClose ==
  /\ mode = "agentic"
  /\ child = "closed"
  /\ ~errored
  /\ closeEvt.code = "0"
  /\ closeEvt.signal = "null"

\* C14: in streaming mode stdout grows only at its end, one arrival after the
\* other, and the call is decided by the last line that is a result event: lines
\* that are not JSON and events of other types are passed over, an earlier
\* result event does not override a later one, and without a result event the
\* call fails.
C14_LastResultEventWins ==
  /\ [](SettledByCleanClose =>
         /\ \A i \in DOMAIN stdout :
              LastResultAt(stdout, i) => outcome = EnvelopeOutcome(stdout[i].wrapper)
         /\ ~HasResultEvent(stdout) =>
              outcome = Rejected(DeepErr("no result event found in stream output")))
  /\ [][stdout' # stdout => \E l \in StreamLines : stdout' = Append(stdout, l)]_vars

\* C14 witness: the engine emitted a result event with findings and then a
\* result event without any; the call returned no findings.
C14_Witness ==
  /\ SettledByCleanClose
  /\ Len(stdout) >= 2
  /\ stdout[1].t = "result"
  /\ ~BadEnvelope(stdout[1].wrapper)
  /\ stdout[1].wrapper.result = [form |-> "json", findings |-> SomeFindings]
  /\ LastResultAt(stdout, 2)
  /\ ~BadEnvelope(stdout[2].wrapper)
  /\ stdout[2].wrapper.result = [form |-> "json", findings |-> NoFindings]
  /\ outcome = Resolved(NoFindings)

\* An engine subprocess the tool has started has not ended: execFile has not
\* settled, or the spawned child has not closed.
EngineInFlight ==
  \/ mode = "bounded" /\ pc = "await"
  \/ mode = "agentic" /\ child = "running"

\* C20: when the tool has exited on an interrupt, no engine subprocess it
\* started is still running: a subprocess in flight at the interrupt has been
\* terminated (by the tool, or by the same signal when it went to the group).
C20_NoEngineLeftRunning ==
  tool = "exited" => ~(EngineInFlight /\ sigintScope = "process")

\* What the handler does do: the clone directory is gone when the tool has
\* exited on an interrupt.
InterruptCleansClone == tool = "exited" => activeClonePath = "null"

InterruptCleansCloneWitness ==
  /\ tool = "exited"
  /\ mode = "agentic"
  /\ child = "running"
  /\ stdout # <<>>

\* A name the deny list covers and the allow list does not.
DenyListed(k) ==
  /\ k \notin KEEP_LIST
  /\ \/ k \in DANGEROUS_EXACT
     \/ \E p \in DANGEROUS_PREFIXES : StartsWith(k, p)

Redacted(env) ==
  /\ \A k \in DOMAIN env : ~DenyListed(k)
  /\ \A k \in DOMAIN parentEnv :
       ~DenyListed(k) => k \in DOMAIN env /\ env[k] = parentEnv[k]

\* C5: in both modes the environment of every engine subprocess holds no
\* deny-listed variable and holds every other variable of the parent unchanged.
C5_EnvRedacted == \A i \in DOMAIN spawns : Redacted(spawns[i].env)

\* The streaming half of C5 alone.
AgenticEnvRedacted ==
  \A i \in DOMAIN spawns : spawns[i].args = AgenticArgs => Redacted(spawns[i].env)

AgenticEnvWitness ==
  /\ mode = "agentic"
  /\ Len(spawns) = 1
  /\ \E k \in DOMAIN parentEnv : DenyListed(k)
  /\ \E k \in DOMAIN spawns[1].env : k \in KEEP_LIST

(***************************************************************************)
(* Claims about membership and partition                                   *)
(***************************************************************************)
\* The elements of seq at the indices in S, in their order in seq.
Pick(seq, S) ==
  LET F[i \in 0..Len(seq)] ==
        IF i = 0 THEN <<>>
        ELSE IF i \in S THEN Append(F[i - 1], seq[i]) ELSE F[i - 1]
  IN F[Len(seq)]

\* C6: partitionFindings splits the list without loss and in order: some set S
\* of input positions makes inline the findings at S, in input order, and offDiff
\* the findings at the other positions, in input order; so the sizes add up and
\* a finding given twice comes out twice.
C6_PartitionLossless ==
  partResult.done =>
    /\ Len(partResult.inline) + Len(partResult.offDiff) = Len(findings)
    /\ \E S \in SUBSET DOMAIN findings :
         /\ partResult.inline = Pick(findings, S)
         /\ partResult.offDiff = Pick(findings, DOMAIN findings \ S)

\* C6 witness: a finding given twice went to one list both times, around a
\* finding that went to the other list.
C6_Witness ==
  /\ partResult.done
  /\ Len(findings) = 3
  /\ findings[1] = findings[3]
  /\ Len(partResult.inline) = 2
  /\ Len(partResult.offDiff) = 1
  /\ findings[2].file \notin DOMAIN diffHunks

\* The line lies in the half-open range of the hunk.
InRange(h, L) == L \in h.newStart .. (h.newStart + h.newCount - 1)

\* The file of the finding has an entry in the map and the line of the finding
\* lies in one of that file's ranges.
ShouldBeInline(f) ==
  /\ f.file \in DOMAIN diffHunks
  /\ \E i \in DOMAIN diffHunks[f.file] : InRange(diffHunks[f.file][i], f.line)

ShouldBeOffDiff(f) == ~ShouldBeInline(f)

\* C7: inline holds exactly the findings whose file is in the map and whose
\* line is within one of that file's ranges, offDiff holds all others, and the
\* call returns for every input.
C7_PartitionClassifies ==
  /\ ~partResult.done => ENABLED PartitionFindingsCall
  /\ partResult.done =>
       /\ partResult.inline = SelectSeq(findings, ShouldBeInline)
       /\ partResult.offDiff = SelectSeq(findings, ShouldBeOffDiff)

\* C7 witness: one call saw a finding of a file absent from the map, a finding
\* of a file with zero hunks or outside every range, and an inline finding.
C7_Witness ==
  /\ partResult.done
  /\ \E i \in DOMAIN findings : findings[i].file \notin DOMAIN diffHunks
  /\ \E i \in DOMAIN findings :
       /\ findings[i].file \in DOMAIN diffHunks
       /\ Len(diffHunks[findings[i].file]) = 2
       /\ ~ShouldBeInline(findings[i])
  /\ Len(partResult.inline) = 1
  /\ Len(partResult.offDiff) = 2

\* C8: isLineInDiff is true exactly when the line lies in the half-open range
\* of some hunk; with a hunk of start 10 and length 5, lines 10 and 14 are in the
\* diff and lines 9 and 15 are not; a hunk of length 0 holds no line.
C8_Membership ==
  /\ memberRes.done =>
       (memberRes.value <=> \E i \in DOMAIN hunksArg : InRange(hunksArg[i], lineArg))
  /\ memberRes.done =>
       ((\A i \in DOMAIN hunksArg : hunksArg[i].newCount = 0) => ~memberRes.value)
  /\ isLineInDiff(<<Hunk(10, 5)>>, 10)
  /\ isLineInDiff(<<Hunk(10, 5)>>, 14)
  /\ ~isLineInDiff(<<Hunk(10, 5)>>, 9)
  /\ ~isLineInDiff(<<Hunk(10, 5)>>, 15)

\* C8 witness: the line is the first one after the range of the second hunk and
\* is not in the diff.
C8_Witness ==
  /\ memberRes.done
  /\ Len(hunksArg) = 2
  /\ hunksArg[2].newCount > 0
  /\ lineArg = hunksArg[2].newStart + hunksArg[2].newCount
  /\ ~memberRes.value

(***************************************************************************)
(* Claims about the detailed diff parser                                   *)
(***************************************************************************)
\* The greatest index of rawLines that satisfies Test and is above lo (lo when
\* there is none).
LastIndexAbove(lo, Test(_)) ==
  LET I == {i \in (lo + 1)..Len(rawLines) : Test(rawLines[i])}
  IN IF I = {} THEN lo ELSE CHOOSE i \in I : \A j \in I : j <= i

IsHunkHeaderText(line) == MatchHunkHeader(line).ok

\* The last file header consumed (0: none).
LastFileAt == LastIndexAbove(0, IsFileHeader)

\* The last hunk header consumed after that file header (0: none).
LastHunkAt ==
  IF LastFileAt = 0 \/ LastIndexAbove(LastFileAt, IsHunkHeaderText) = LastFileAt
    THEN 0
    ELSE LastIndexAbove(LastFileAt, IsHunkHeaderText)

LastHunk == MatchHunkHeader(rawLines[LastHunkAt])

\* The line consumed last lies inside a hunk of a file.
LastLineInHunk == LastHunkAt > 0 /\ Len(rawLines) > LastHunkAt

LastLine == rawLines[Len(rawLines)]

\* How many lines since the last hunk header begin with one of the characters.
CountSince(chars) ==
  Cardinality({j \in (LastHunkAt + 1)..Len(rawLines) : rawLines[j][1] \in chars})

\* The DiffLine pushed last onto the current file.
LastRecorded == files[current].lines[Len(files[current].lines)]

\* C9: a line inside a hunk that begins with '+' is recorded as an addition, one
\* that begins with '-' as a deletion, one that begins with a space as context,
\* whatever follows the first character; the k-th new-side line after the hunk
\* header carries newStart + k - 1 and the k-th old-side line oldStart + k - 1.
C9_ContentLinesNumbered ==
  LastLineInHunk =>
    /\ LastLine[1] = "+" =>
         LastRecorded = DiffLine("addition", Null,
                                 LastHunk.newStart + CountSince({"+", " "}) - 1,
                                 Slice(LastLine, 1))
    /\ LastLine[1] = "-" =>
         LastRecorded = DiffLine("deletion",
                                 LastHunk.oldStart + CountSince({"-", " "}) - 1, Null,
                                 Slice(LastLine, 1))
    /\ LastLine[1] = " " =>
         LastRecorded = DiffLine("context",
                                 LastHunk.oldStart + CountSince({"-", " "}) - 1,
                                 LastHunk.newStart + CountSince({"+", " "}) - 1,
                                 Slice(LastLine, 1))

\* The first half of C10 alone: after a hunk header of a file the counters are
\* the header's declared starts.
HunkHeaderResets ==
  (LastHunkAt > 0 /\ Len(rawLines) = LastHunkAt) =>
    oldLineNum = LastHunk.oldStart /\ newLineNum = LastHunk.newStart

\* C10: a hunk header of a file sets both counters to its declared starts,
\* whatever they were, and the first old-side line and the first new-side line
\* after that header carry exactly those numbers.
C10_HunkHeaderStarts ==
  /\ HunkHeaderResets
  /\ (LastLineInHunk /\ LastLine[1] \in {"-", " "} /\ CountSince({"-", " "}) = 1) =>
       /\ LastRecorded.type \in {"deletion", "context"}
       /\ LastRecorded.oldLineNum = LastHunk.oldStart
  /\ (LastLineInHunk /\ LastLine[1] \in {"+", " "} /\ CountSince({"+", " "}) = 1) =>
       /\ LastRecorded.type \in {"addition", "context"}
       /\ LastRecorded.newLineNum = LastHunk.newStart

\* A second hunk header was consumed while the counters stood elsewhere, and
\* they now stand at its starts.
HunkHeaderResetsWitness ==
  /\ LastHunkAt = 5
  /\ Len(rawLines) = 5
  /\ \E i \in 2..3 : IsHunkHeaderText(rawLines[i]) /\ rawLines[i] # rawLines[5]
  /\ LastFileAt = 1
  /\ oldLineNum = LastHunk.oldStart

\* The model's step-by-step state is the function's result on the text so far.
ParseStepsAgree == files = parseDetailedDiff(rawLines)

\* The lines of rawDiff that belong to the last file: its header and what follows.
LastFileText == SubSeq(rawLines, LastFileAt, Len(rawLines))

\* C11: a file boundary resets both counters: the lines recorded for a file, with
\* their numbers, are those the parser records for that file's own text alone,
\* whatever the hunks of an earlier file left in the counters.
C11_FileBoundaryResets ==
  LastFileAt > 0 =>
    files[Len(files)].lines = parseDetailedDiff(LastFileText)[1].lines

\* What does hold: a file whose content lines all follow one of its own hunk
\* headers is numbered from its own text alone.
FileWithHunkIndependent ==
  (LastFileAt > 0 /\ LastHunkAt = LastFileAt + 1) =>
    files[Len(files)].lines = parseDetailedDiff(LastFileText)[1].lines

FileWithHunkIndependentWitness ==
  /\ Len(files) = 2
  /\ LastHunkAt = LastFileAt + 1
  /\ Len(files[2].lines) = 2
  /\ files[1].lines # <<>>
  /\ files[2].lines[2].type = "context"
  /\ oldLineNum # files[2].lines[2].oldLineNum + 2

\* The DiffLines parseDetailedDiff has produced so far.
ProducedLines ==
  {files[i].lines[j] : <<i, j>> \in
     {<<i, j>> \in (1..Len(files)) \X (1..MaxDiffLines + 1) : j <= Len(files[i].lines)}}

DiffLineShape(l) ==
  CASE l.type = "addition" -> l.newLineNum # Null /\ l.oldLineNum = Null
    [] l.type = "deletion" -> l.oldLineNum # Null /\ l.newLineNum = Null
    [] l.type = "context" -> l.oldLineNum # Null /\ l.newLineNum # Null
    [] l.type = "hunk-header" -> l.oldLineNum = Null /\ l.newLineNum = Null
    [] OTHER -> FALSE

\* The step pushes a context line onto the current file.
PushesContext ==
  /\ current # 0
  /\ current' = current
  /\ Len(files'[current].lines) = Len(files[current].lines) + 1
  /\ files'[current].lines[Len(files'[current].lines)].type = "context"

\* C13: every DiffLine produced has the shape of its type: an addition has its
\* new number set and its old number unset, a deletion the reverse, a context
\* line both set, a hunk-header line neither; and every step that records a
\* context line advances both counters by one.
C13_DiffLineTypeInvariant ==
  /\ [](\A l \in ProducedLines : DiffLineShape(l))
  /\ [][PushesContext => /\ oldLineNum' = oldLineNum + 1
                         /\ newLineNum' = newLineNum + 1]_vars

\* A file holds a line of each of the four types, the context line last.
C13_Witness ==
  /\ current # 0
  /\ {l.type : l \in ProducedLines} = {"addition", "deletion", "context", "hunk-header"}
  /\ LastRecorded.type = "context"
  /\ LastRecorded.oldLineNum # LastRecorded.newLineNum
  /\ oldLineNum = LastRecorded.oldLineNum + 1

(***************************************************************************)
(* Claims about the hunk ranges                                            *)
(***************************************************************************)
\* The DiffHunks parseDiffHunks has produced so far.
ProducedHunks ==
  {result[i].hunks[j] : <<i, j>> \in
     {<<i, j>> \in (1..Len(result)) \X (1..MaxHunkLines + 1) : j <= Len(result[i].hunks)}}

Matched == matchResult.matched

\* The actuals (positions in actual) still unconsumed when record k is made:
\* those no earlier record holds.
PoolBefore(k) ==
  {i \in 1..Len(actual) : \A j \in 1..(k - 1) : Matched[j].actual # i}

\* The unconsumed actuals in the file of record k's expected finding, at most 5
\* lines from it.
CandidatesOf(k) ==
  {i \in PoolBefore(k) :
     /\ actual[i].file = Matched[k].expected.file
     /\ Abs(actual[i].line - Matched[k].expected.line) <= 5}

DistanceTo(k, i) == Abs(actual[i].line - Matched[k].expected.line)

\* C15: each expected finding, in the order processed, is paired with the
\* unconsumed actual of the same file at the least line distance not above 5,
\* the earliest one of the pool among equals; it is recorded as unmatched only
\* when no unconsumed actual of its file lies within 5 lines.
C15_ClosestWithinWindow ==
  matchResult.done =>
    \A k \in 1..Len(Matched) :
      /\ CandidatesOf(k) = {} <=> Matched[k].actual = 0
      /\ CandidatesOf(k) # {} =>
           /\ Matched[k].actual \in CandidatesOf(k)
           /\ \A i \in CandidatesOf(k) :
                \/ DistanceTo(k, Matched[k].actual) < DistanceTo(k, i)
                \/ /\ DistanceTo(k, Matched[k].actual) = DistanceTo(k, i)
                   /\ Matched[k].actual <= i

\* C15 witness: a match at distance 5, an expected finding left unmatched with
\* an actual of its file 6 lines away, and a tie that went to the earlier actual.
C15_Witness ==
  /\ matchResult.done
  /\ \E k \in 1..Len(Matched) : Matched[k].distance = 5
  /\ \E k \in 1..Len(Matched) :
       /\ Matched[k].actual = 0
       /\ \E i \in PoolBefore(k) :
            actual[i].file = Matched[k].expected.file /\ DistanceTo(k, i) = 6
  /\ \E k \in 1..Len(Matched) :
       \E i \in CandidatesOf(k) :
         /\ i > Matched[k].actual
         /\ DistanceTo(k, i) = Matched[k].distance

\* The records that hold an actual.
WithActual == {k \in 1..Len(Matched) : Matched[k].actual # 0}

Unmatched == matchResult.unmatched_actual

\* C16: every actual ends in exactly one place: as the actual of one record or
\* in unmatched_actual, never both, never twice, so the records with an actual
\* and unmatched_actual together count |actual|; unmatched_actual keeps the
\* input order; the caller's actual list is not changed.
C16_ActualsAccounted ==
  /\ [](matchResult.done =>
         /\ \A i \in 1..Len(actual) :
              Cardinality({k \in WithActual : Matched[k].actual = i})
                + Cardinality({u \in 1..Len(Unmatched) : Unmatched[u] = i}) = 1
         /\ \A k \in WithActual : Matched[k].actual \in 1..Len(actual)
         /\ \A u \in 1..Len(Unmatched) : Unmatched[u] \in 1..Len(actual)
         /\ Cardinality(WithActual) + Len(Unmatched) = Len(actual)
         /\ \A u, v \in 1..Len(Unmatched) : u < v => Unmatched[u] < Unmatched[v])
  /\ [][actual' = actual]_vars

\* C16 witness: two actuals within the window of one expected finding; the
\* nearer one is paired, the other is left in unmatched_actual, between two
\* more that stay unmatched in input order.
C16_Witness ==
  /\ matchResult.done
  /\ Len(actual) = 3
  /\ Cardinality(WithActual) = 1
  /\ Len(Unmatched) = 2
  /\ \E k \in WithActual : \E u \in 1..Len(Unmatched) :
       /\ Unmatched[u] \in CandidatesOf(k)
       /\ DistanceTo(k, Unmatched[u]) > Matched[k].distance

\* How often x occurs in the sequence s.
Occurrences(s, x) == Cardinality({i \in 1..Len(s) : s[i] = x})

\* C17: one record per expected finding, in ascending (file, line) order; a
\* record without a match has actual null and distance -1; a record with a match
\* has an actual of its expected finding's file and as distance the absolute
\* line difference, which lies in 0..5.
C17_RecordPerExpected ==
  matchResult.done =>
    /\ Len(Matched) = Len(expected)
    /\ \A x \in ExpectedFindings :
         Occurrences([k \in 1..Len(Matched) |-> Matched[k].expected], x)
           = Occurrences(expected, x)
    /\ \A j, k \in 1..Len(Matched) :
         j < k =>
           \/ LocaleCompare(Matched[j].expected.file, Matched[k].expected.file) < 0
           \/ /\ Matched[j].expected.file = Matched[k].expected.file
              /\ Matched[j].expected.line <= Matched[k].expected.line
    /\ \A k \in 1..Len(Matched) :
         IF Matched[k].actual = 0
           THEN Matched[k].distance = -1
           ELSE /\ actual[Matched[k].actual].file = Matched[k].expected.file
                /\ Matched[k].distance =
                     Abs(actual[Matched[k].actual].line - Matched[k].expected.line)
                /\ Matched[k].distance \in 0..5

\* C17 witness: expected was given in descending order; the records are in
\* ascending order, one matched and one not.
C17_Witness ==
  /\ matchResult.done
  /\ Len(expected) = 2
  /\ CompareExpected(expected[1], expected[2]) > 0
  /\ Matched[1].expected = expected[2]
  /\ Matched[2].expected = expected[1]
  /\ Matched[1].actual = 0
  /\ Matched[2].actual # 0

(***************************************************************************)
(* Claims about the evaluation metrics                                     *)
(***************************************************************************)
\* The records of the argument with the given classifications, with an actual
\* (paired = TRUE) or without.
RecordsOf(classes, paired) ==
  {k \in 1..Len(metricsArg.matched) :
     /\ metricsArg.matched[k].expected.classification \in classes
     /\ (metricsArg.matched[k].actual # 0) = paired}

\* The three values a call returns.
Returned(r) == <<r.precision, r.recall, r.hallucinationRate>>

\* The argument with the record m put in at position p.
WithRecordAt(m, p) ==
  [metricsArg EXCEPT !.matched = SubSeq(@, 1, p - 1) \o <<m>> \o SubSeq(@, p, Len(@))]

\* C18: a matched GOOD record counts as a true positive, a matched MEH or BAD
\* record as a false positive, an unmatched GOOD record as a false negative; an
\* unmatched MEH or BAD record counts as nothing, so one more of them, put
\* anywhere, leaves precision, recall and hallucinationRate as they are.
C18_MetricCounts ==
  metrics.done =>
    /\ metrics.tp = Cardinality(RecordsOf({"GOOD"}, TRUE))
    /\ metrics.fp = Cardinality(RecordsOf({"MEH", "BAD"}, TRUE))
    /\ metrics.fn = Cardinality(RecordsOf({"GOOD"}, FALSE))
    /\ \A m \in {x \in FindingMatches :
                    x.actual = 0 /\ x.expected.classification \in {"MEH", "BAD"}} :
         \A p \in 1..(Len(metricsArg.matched) + 1) :
           Returned(computeMetrics(WithRecordAt(m, p))) = Returned(metrics)

\* C18 witness: a matched GOOD, a matched BAD and an unmatched MEH record: one
\* true positive, one false positive, no false negative.
C18_Witness ==
  /\ metrics.done
  /\ RecordsOf({"GOOD"}, TRUE) # {}
  /\ RecordsOf({"BAD"}, TRUE) # {}
  /\ RecordsOf({"MEH"}, FALSE) # {}
  /\ metrics.tp = 1 /\ metrics.fp = 1 /\ metrics.fn = 0

\* A value in [0, 1] that is a number (not NaN, not infinite).
InUnitInterval(q) == q.den > 0 /\ 0 <= q.num /\ q.num <= q.den

\* The quotient n / d, or dflt when d is zero.
QuotientOr(n, d, dflt) == IF d = 0 THEN dflt ELSE [num |-> n, den |-> d]

\* C19: precision is TP/(TP+FP), recall TP/(TP+FN), hallucinationRate
\* |unmatched_actual| / (records with an actual + |unmatched_actual|), with 1.0,
\* 1.0 and 0 in place of a division by zero; all three lie in [0, 1] and are
\* never NaN or infinite.
C19_MetricFormulas ==
  metrics.done =>
    LET TP == Cardinality(RecordsOf({"GOOD"}, TRUE))
        FP == Cardinality(RecordsOf({"MEH", "BAD"}, TRUE))
        FN == Cardinality(RecordsOf({"GOOD"}, FALSE))
        H == Len(metricsArg.unmatched_actual)
    IN /\ metrics.precision = QuotientOr(TP, TP + FP, [num |-> 1, den |-> 1])
       /\ metrics.recall = QuotientOr(TP, TP + FN, [num |-> 1, den |-> 1])
       /\ metrics.hallucinationRate = QuotientOr(H, TP + FP + H, [num |-> 0, den |-> 1])
       /\ InUnitInterval(metrics.precision)
       /\ InUnitInterval(metrics.recall)
       /\ InUnitInterval(metrics.hallucinationRate)

\* C19 witness: nothing expected and nothing found: 1.0, 1.0 and 0.
C19_Witness ==
  /\ metrics.done
  /\ metricsArg = [matched |-> <<>>, unmatched_actual |-> <<>>]
  /\ metrics.precision = [num |-> 1, den |-> 1]
  /\ metrics.recall = [num |-> 1, den |-> 1]
  /\ metrics.hallucinationRate = [num |-> 0, den |-> 1]

\* Every division by a non-zero count happens too: two of three records
\* matched, one of them GOOD, one GOOD missed, one hallucination.
MetricsDivideWitness ==
  /\ metrics.done
  /\ metrics.precision = [num |-> 1, den |-> 2]
  /\ metrics.recall = [num |-> 1, den |-> 2]
  /\ metrics.hallucinationRate = [num |-> 1, den |-> 3]

(***************************************************************************)
(* Claims about the command's action handler                               *)
(***************************************************************************)
\* The run ended by returning from the handler after the user chose to keep
\* the clone.
UserKeptClone == runPc = "returned" /\ answer # NoAnswer /\ KeepsClone(answer)

\* C21: a deep-mode run leaves no clone directory behind: however it ends,
\* except by the user choosing to keep the clone, the directory does not exist
\* when the process has exited.
C21_NoOrphanedClone ==
  (mode = "deep" /\ tool = "exited" /\ ~UserKeptClone) => cloneDir = "absent"

\* What holds: the directory is gone on every exit other than the
\* process.exit of the failed quick fallback.
CloneRemovedUnlessFallbackExit ==
  (mode = "deep" /\ tool = "exited" /\ exitCode # EXIT_ANALYSIS_ERROR) => cloneDir = "absent"

CloneRemovedWitness ==
  /\ mode = "deep"
  /\ tool = "exited"
  /\ runPc = "deepAnalysis"
  /\ sigintScope = "none"
  /\ cloneDir = "absent"

\* C22: after a normal end of a deep-mode run the answer has decided: the clone
\* directory exists if the user answered 'y' and is gone after any other answer.
C22_AnswerDecidesClone ==
  (mode = "deep" /\ tool = "exited" /\ runPc = "returned" /\ answer # NoAnswer) =>
    IF KeepsClone(answer) THEN cloneDir = "present" ELSE cloneDir = "absent"

\* What holds of the prompt: after any answer that is not 'y' the clone is gone.
OtherAnswerRemovesClone ==
  (mode = "deep" /\ tool = "exited" /\ runPc = "returned" /\ answer # NoAnswer
     /\ ~KeepsClone(answer)) => cloneDir = "absent"

OtherAnswerWitness ==
  /\ mode = "deep"
  /\ tool = "exited"
  /\ answer = <<"y","e","s">>
  /\ cloneDir = "absent"

\* The run ended where an engine analysis was awaited, and not by an interrupt:
\* the analysis failed.
AnalysisFailed ==
  /\ mode \in {"deep", "quick"}
  /\ tool = "exited"
  /\ sigintScope = "none"
  /\ runPc \in {"fetched", "fallback", "deepAnalysis"}

\* C23: when the engine analysis fails (quick mode, deep mode's streaming
\* analysis, deep mode's quick fallback) the run halts with the sanitized
\* reason printed, exit code 4, and no findings printed or posted.
C23_AnalysisFailureHalts ==
  AnalysisFailed =>
    /\ printed.failure = "sanitized"
    /\ exitCode = EXIT_ANALYSIS_ERROR
    /\ ~printed.findings
    /\ ~printed.posted

\* What holds: the two awaits of analyzeDiff halt as claimed.
QuickFailureHalts ==
  (AnalysisFailed /\ runPc # "deepAnalysis") =>
    /\ printed.failure = "sanitized"
    /\ exitCode = EXIT_ANALYSIS_ERROR
    /\ ~printed.findings
    /\ ~printed.posted

QuickFailureWitness == AnalysisFailed /\ mode = "deep" /\ runPc = "fallback"

(***************************************************************************)
(* Claims about posting the review                                         *)
(***************************************************************************)
\* The text holds, somewhere behind position from, the path, the line and the
\* text of comment c, in this order.
ShowsComment(text, from, c) ==
  \E k \in (from + 1)..Len(text) :
    /\ k + 4 <= Len(text)
    /\ text[k] = c.path
    /\ text[k + 2] = ToString(c.line)
    /\ text[k + 4] = c.body

\* C24: createReview is called at most twice. A second call is made exactly
\* when the first failed with status 422 and comments were supplied; it carries
\* no comments and a body that begins with the original body and then shows the
\* path, line and text of every supplied comment. Any other failure of the
\* first call is rethrown as it is.
C24_PostRetryOn422 ==
  mode = "post" =>
    /\ Len(postCalls) <= 2
    /\ Len(postCalls) >= 1 => postCalls[1] = [body |-> postArgs.body,
                                              comments |-> postArgs.comments]
    /\ Len(postCalls) = 2 =>
         /\ postArgs.comments # <<>>
         /\ postCalls[2].comments = <<>>
         /\ SubSeq(postCalls[2].body, 1, Len(postArgs.body)) = postArgs.body
         /\ \A i \in 1..Len(postArgs.comments) :
              ShowsComment(postCalls[2].body, Len(postArgs.body), postArgs.comments[i])
    /\ (postOutcome.state = "rejected" /\ postOutcome.error.call = 1) =>
         /\ Len(postCalls) = 1
         /\ postOutcome.error.status # 422 \/ postArgs.comments = <<>>
    /\ (postPc = "done" /\ Len(postCalls) = 1 /\ postOutcome.state = "rejected") =>
         postOutcome.error.call = 1
    /\ (postPc = "done" /\ Len(postCalls) = 2) => postOutcome.error.call # 1

\* C24 witness: two comments were supplied, the first call failed with 422, the
\* second call went out without comments and succeeded.
C24_Witness ==
  /\ mode = "post"
  /\ Len(postArgs.comments) = 2
  /\ postArgs.comments[1] # postArgs.comments[2]
  /\ postArgs.body # <<>>
  /\ Len(postCalls) = 2
  /\ postOutcome = PostResolved("url2")

\* A 422 without comments was rethrown after one call.
Post422NoCommentsWitness ==
  /\ mode = "post"
  /\ postArgs.comments = <<>>
  /\ postPc = "done"
  /\ Len(postCalls) = 1
  /\ postOutcome = PostRejected(PostError(422, 1))

(***************************************************************************)
(* Claims about the evaluator as a whole                                   *)
(***************************************************************************)
\* The actual findings are the expected findings themselves: the same file and
\* line, position by position.
SelfMatch ==
  /\ Len(actual) = Len(expected)
  /\ \A i \in 1..Len(expected) :
       actual[i] = [file |-> expected[i].file, line |-> expected[i].line]

\* The metrics of the matcher's result.
MetricsOfResult == computeMetrics(matchResult)

IsOne(r) == r.den # 0 /\ r.num = r.den
IsZero(r) == r.den # 0 /\ r.num = 0

\* C25: self-match. When the actual findings are the expected findings
\* themselves, every record has an actual of its own file and line at distance 0,
\* unmatched_actual is empty, and computeMetrics gives recall 1.0 and
\* hallucinationRate 0.
C25_SelfMatch ==
  (matchResult.done /\ SelfMatch) =>
    /\ \A k \in 1..Len(Matched) :
         /\ Matched[k].actual # 0
         /\ Matched[k].distance = 0
         /\ actual[Matched[k].actual].file = Matched[k].expected.file
         /\ actual[Matched[k].actual].line = Matched[k].expected.line
    /\ Unmatched = <<>>
    /\ IsOne(MetricsOfResult.recall)
    /\ IsZero(MetricsOfResult.hallucinationRate)

\* C25 witness: a self-match of two expected findings of one file and line.
C25_Witness ==
  /\ matchResult.done
  /\ SelfMatch
  /\ Len(expected) = 2
  /\ expected[1].file = expected[2].file
  /\ expected[1].line = expected[2].line
  /\ expected[1].classification # expected[2].classification

\* A self-match of two findings of one file less than 5 lines apart, given in
\* descending order.
SelfMatchNeighboursWitness ==
  /\ matchResult.done
  /\ SelfMatch
  /\ Len(expected) = 2
  /\ expected[1].file = expected[2].file
  /\ expected[1].line = expected[2].line + 1

\* A self-match without a GOOD finding: recall is the default.
SelfMatchNoGoodWitness ==
  /\ matchResult.done
  /\ SelfMatch
  /\ Len(expected) = 1
  /\ expected[1].classification = "BAD"
  /\ MetricsOfResult.recall = Ratio(1, 1)

\* The orderings of a list: the list read through each permutation of its
\* positions.
Orderings(s) ==
  { [i \in 1..Len(s) |-> s[f[i]]] :
      f \in {g \in [1..Len(s) -> 1..Len(s)] : \A i, j \in 1..Len(s) : g[i] = g[j] => i = j} }

\* The records of a result as a set.
RecordSet(r) == {r.matched[k] : k \in 1..Len(r.matched)}

\* Two results agree: the same set of (expected, actual, distance) records, the
\* same unmatched_actual and the same metrics.
SameResult(r1, r2) ==
  /\ RecordSet(r1) = RecordSet(r2)
  /\ r1.unmatched_actual = r2.unmatched_actual
  /\ Returned(computeMetrics(r1)) = Returned(computeMetrics(r2))

\* C29: matchFindings does not depend on the order of the expected findings:
\* for the same actual list, every ordering of the expected findings gives the
\* same set of records, the same unmatched_actual and the same metrics.
C29_ExpectedOrderIrrelevant ==
  matchResult.done =>
    \A other \in Orderings(expected) :
      SameResult(matchFindings(actual, other), matchResult)

\* No two expected findings share file and line.
DistinctKeys ==
  \A i, j \in 1..Len(expected) :
    (expected[i].file = expected[j].file /\ expected[i].line = expected[j].line) => i = j

\* With expected findings of pairwise different (file, line), the order of the
\* expected findings is irrelevant.
OrderIrrelevantForDistinctKeys ==
  (matchResult.done /\ DistinctKeys) =>
    \A other \in Orderings(expected) :
      SameResult(matchFindings(actual, other), matchResult)

\* Two expected findings within the window of one actual, given in descending
\* order, were matched.
OrderIrrelevantWitness ==
  /\ matchResult.done
  /\ DistinctKeys
  /\ Len(expected) = 2
  /\ Len(actual) = 1
  /\ expected[1].file = expected[2].file
  /\ expected[1].line > expected[2].line
  /\ Matched[1].actual # 0

(***************************************************************************)
(* Claims about the settlement of a streaming call                         *)
(***************************************************************************)
AgenticTimeoutError == DeepErr("timed out after 10 minutes")

\* C26: a streaming call settles exactly once. The promise is settled exactly
\* when the settled flag is set; once settled, no later 'error', 'close' or
\* timer event changes the outcome; and a settled call has no armed timer, so
\* the timer callback never runs after the settlement.
C26_SettlesOnce ==
  /\ [](mode = "agentic" =>
         /\ settled <=> outcome # Pending
         /\ settled => timer # "armed")
  /\ [][mode = "agentic" /\ settled =>
         /\ outcome' = outcome
         /\ settled'
         /\ timer' = timer]_vars

\* C26 witness: the timer expired, then 'error' settled the call, then 'close'
\* arrived with a signal and left the outcome of 'error' in place.
C26_Witness ==
  /\ mode = "agentic"
  /\ timer = "fired"
  /\ errored
  /\ child = "closed"
  /\ closeEvt.signal = "SIGTERM"
  /\ outcome = Rejected(DeepErr("err.message"))

\* C27: every streaming call eventually settles.
C27_EventuallySettles ==
  (mode = "agentic") ~> settled

\* The timer of every streaming call that stays unsettled expires.
TimerExpiresOrSettled ==
  (mode = "agentic") ~> (settled \/ timer = "fired")

\* The call is pending although its timer has expired.
PendingAfterTimeoutWitness ==
  /\ mode = "agentic"
  /\ timer = "fired"
  /\ child = "running"
  /\ ~settled

\* The call ended because its own timeout expired: in streaming mode the timer
\* callback ran, in bounded mode the last execFile call was ended by its timeout
\* option.
OwnTimeoutExpired ==
  \/ mode = "agentic" /\ timer = "fired"
  \/ mode = "bounded" /\ engineLog # <<>> /\ engineLog[Len(engineLog)].cause = "timeout"

FailsWithTimeoutExplanation ==
  /\ outcome.state = "rejected"
  /\ IF mode = "agentic" THEN outcome.error = AgenticTimeoutError
                         ELSE outcome.error = TimeoutError

\* C28: in either mode a failed call carries the timeout explanation exactly
\* when its own timeout expired.
C28_TimeoutExplanationExact ==
  (mode \in {"bounded", "agentic"} /\ outcome.state = "rejected") =>
    (FailsWithTimeoutExplanation <=> OwnTimeoutExpired)

\* In bounded mode a failed call carries the timeout explanation exactly when
\* its last execFile call was ended by the timeout option.
BoundedTimeoutExplanationExact ==
  (mode = "bounded" /\ outcome.state = "rejected") =>
    (FailsWithTimeoutExplanation <=> OwnTimeoutExpired)

\* A bounded call failed over an output above the buffer cap, without the
\* timeout explanation.
BoundedMaxBufferWitness ==
  /\ mode = "bounded"
  /\ outcome.state = "rejected"
  /\ engineLog[Len(engineLog)].cause = "maxbuffer"
  /\ ~FailsWithTimeoutExplanation

(***************************************************************************)
(* Claims about the HTML report                                            *)
(***************************************************************************)
InSeq(x, seq) == \E i \in 1..Len(seq) : seq[i] = x

\* The finding is annotated under a diff line of a section of its file.
Annotated(f) ==
  \E s \in 1..Len(htmlReport.diffSections) :
    \E k \in 1..Len(htmlReport.diffSections[s]) :
      InSeq(f, htmlReport.diffSections[s][k])

\* C30: every finding passed to generateHtmlReport is shown in the report: a
\* finding classified inline is annotated under a diff line of its file, every
\* other finding is listed in the off-diff section.
C30_EveryFindingShown ==
  htmlReport.done =>
    \A i \in 1..Len(reportArg.findings) :
      LET f == reportArg.findings[i] IN
      IF InSeq(f, htmlReport.inline) THEN Annotated(f)
      ELSE InSeq(f, htmlReport.offDiffSection)

\* Every finding without endLine is shown: annotated when inline, in the
\* off-diff section otherwise.
FindingWithoutEndLineShown ==
  htmlReport.done =>
    \A i \in 1..Len(reportArg.findings) :
      LET f == reportArg.findings[i] IN
      f.endLine = NoEndLine =>
        IF InSeq(f, htmlReport.inline) THEN Annotated(f)
        ELSE InSeq(f, htmlReport.offDiffSection)

\* A report with an annotated finding and an off-diff finding, both without
\* endLine.
FindingWithoutEndLineWitness ==
  /\ htmlReport.done
  /\ Len(reportArg.findings) = 2
  /\ \A i \in 1..2 : reportArg.findings[i].endLine = NoEndLine
  /\ Annotated(reportArg.findings[1])
  /\ InSeq(reportArg.findings[2], htmlReport.offDiffSection)

====
